---- MODULE Spec2Model ----
(***************************************************************************)
(* deploy-rs: the magic-rollback activation protocol.                      *)
(*                                                                         *)
(* The specifications of this module:                                      *)
(*   SpecDeploy  the coordinator loop of run_deploy (src/cli.rs): push     *)
(*               every part, deploy them in order, revoke on failure.     *)
(*   SpecUnit    one call of deploy_profile (src/deploy.rs) together with  *)
(*               the target it talks to: the agent's `activate` and       *)
(*               `wait` subcommands (src/bin/activate.rs), the sentinel    *)
(*               file and the profile's generations.                       *)
(*   SpecAgent   the agent's `activate` invoked on its own with any        *)
(*               combination of its flags (--boot included), the removal   *)
(*               of the sentinel and SIGHUP coming from its environment;   *)
(*               SpecAgentFair adds that the agent process keeps running.  *)
(*   SpecWatch   the agent's `activate` and `wait` running side by side    *)
(*               with magic rollback, their watchers receiving events of  *)
(*               any kind and, for wait, for any file of temp_path.        *)
(*   SpecPath    make_lock_path (src/lib.rs) as the controller's           *)
(*               confirm_profile and the agent's activate and wait apply   *)
(*               it; strings are sequences of one-character strings.       *)
(*   SpecMerge   the settings merge of one unit for one scalar setting:    *)
(*               DeployData::new (src/data.rs) and make_deploy_data        *)
(*               (src/lib.rs), with Merge for Option<T> of the merge       *)
(*               crate (self is kept when it is Some).                     *)
(*   SpecResolve Target::resolve with DeployData::new (src/data.rs) and    *)
(*               the expansion of run_deploy (src/cli.rs) on a root with   *)
(*               the nodes n1 (any profiles, order, hostname) and n2; the  *)
(*               iteration order of a HashMap is any order of its keys.    *)
(*   SpecParse   Target::from_str (src/data.rs) and parse_flake            *)
(*               (src/lib.rs) as run (src/cli.rs) calls it, on             *)
(*               descriptors repo[#path[@host]] whose path has up to       *)
(*               MaxDepth components, bare or quoted.                      *)
(*   SpecCommand the remote command lines of one unit (src/deploy.rs):     *)
(*               build_activate_command, build_wait_command,               *)
(*               build_revoke_command and the rm of confirm_profile; a     *)
(*               command line is the sequence of its space-separated       *)
(*               pieces.                                                   *)
(*   SpecSsh     the cache of SSH control masters (src/ssh.rs): tasks      *)
(*               calling get_or_create and close_all on one multiplexer.   *)
(*   SpecTimer   the timers of activate and wait (src/bin/activate.rs),    *)
(*               with a clock of seconds; SpecTimerFair adds that the      *)
(*               processes run, time passes and timers fire.               *)
(* A specification keeps the variables of the other ones at their idle     *)
(* values.                                                                 *)
(*                                                                         *)
(* What lies outside the repository is modelled by its contract:           *)
(*   - nix-env keeps the generations of a profile as a list ordered by     *)
(*     id; --set makes the last generation current, after appending a      *)
(*     generation unless the last one already holds the closure;           *)
(*     --rollback moves to the generation preceding the current one, and   *)
(*     --delete-generations refuses the current one.  A command that       *)
(*     exits non-zero leaves the profile as it was.                        *)
(*   - every external command (nix-env, the activation script, ssh, the    *)
(*     file system calls, the watcher) may fail.                           *)
(*   - a file system event reaches the callback of an armed watcher with   *)
(*     the operation that raises it; a timer may fire whenever the         *)
(*     channel it races against is empty.                                  *)
(*   - an ssh process exits with the exit code of the agent process it     *)
(*     carries.                                                            *)
(*   - an argument the controller writes in single quotes on the remote    *)
(*     command line reaches the agent as it was written.                   *)
(*   - rnix::parse (rnix before 0.11, the version with rnix::types) gives   *)
(*     a root without child for the empty text, a NODE_IDENT holding a    *)
(*     TOKEN_IDENT for an identifier, a NODE_STRING holding the opening    *)
(*     quote, the content and the closing quote for a string, and for      *)
(*     x.y a NODE_SELECT holding the node of x, TOKEN_DOT and the node of  *)
(*     y; a longer path nests to the left: x.y.z is the NODE_SELECT of     *)
(*     the NODE_SELECT of x.y, TOKEN_DOT and the node of z.                *)
(*   - tokio::select! takes any branch that is ready; a oneshot send       *)
(*     fails when the receiver was dropped, a oneshot receive fails when   *)
(*     the sender was dropped unsent, and unwrap() of a failure panics.    *)
(* SpecDeploy takes the result of deploy_profile from the three results    *)
(* SpecUnit shows it to have: Ok, Err, or a panic.                         *)
(***************************************************************************)
EXTENDS Integers, Sequences, FiniteSets, TLC

VARIABLES
    \* ---- settings of the run / of the unit --------------------------
    dry_activate,        \* --dry-activate
    magic_rollback,      \* merged_settings.magic_rollback.unwrap_or(true)
    auto_rollback,       \* merged_settings.auto_rollback.unwrap_or(true)
    boot,                \* the agent's --boot
    \* ---- run_deploy (src/cli.rs) --------------------------------------
    nparts,              \* number of entries of `parts`
    rollback_succeeded,  \* --rollback-succeeded
    cmd_auto_rollback,   \* cmd_overrides.auto_rollback : Option<bool>
    decl_auto_rollback,  \* per part: auto_rollback merged from profile, node, root
    rpc,                 \* position of run_deploy
    part,                \* index of the part the loops are at
    rev,                 \* index into `succeeded` of the revocation loop
    succeeded,           \* the `succeeded` vector (indices into parts)
    calls,               \* remote invocations issued so far, and their returns
    rResult,             \* what run_deploy returned
    \* ---- the target (state the agent reads and writes) ------------------
    gens,                \* generations of the profile: <<[id, closure]>> by id
    cur,                 \* id of the generation the profile points at, 0 if none
    sentinel,            \* the canary file exists
    priorGens,           \* generations before this activate invocation
    priorCur,            \* current generation before this activate invocation
    \* ---- agent `activate` process ----------------------------------------
    apc,                 \* position of activate()
    aErr,                \* error activate() returns once deactivate() is done
    aRet,                \* what activate() returned
    aLastGen,            \* last_generation_id read by deactivate()
    awatch,              \* the watcher on the sentinel is armed
    achan,               \* the (deleted, done) channel, capacity 1
    aHist,               \* history of the invocation (set of tags)
    \* ---- agent `wait` process ----------------------------------------------
    wpc,                 \* position of wait()
    wRet,                \* what wait() returned
    wwatch,              \* the watcher on temp_path is armed
    wchan,               \* the (created, done) channel, capacity 1
    wHist,               \* history of the invocation (set of tags)
    \* ---- deploy_profile (src/deploy.rs) -----------------------------------
    dpc,                 \* position of deploy_profile's own task
    dRet,                \* what deploy_profile returned
    cRet,                \* result `c` of confirm_profile
    tpc,                 \* position of the spawned task that awaits ssh_activate
    send_activate,       \* oneshot (send_activate, recv_activate)
    send_activated,      \* oneshot (send_activated, recv_activated)
    recv_activate,       \* receiver still alive
    recv_activated,      \* receiver still alive
    dHist,               \* history of the call (set of tags)
    \* ---- the environment of a deployment ------------------------------------
    round,               \* deployments of the closure to this target so far
    hups,                \* SIGHUPs delivered to the agent's activate process
    \* ---- the sentinel path (src/lib.rs make_lock_path) ----------------------
    temp_path,           \* merged_settings.temp_path, passed as --temp-path
    closure,             \* profile_settings.path, passed as <closure>
    confirm_lock_path,   \* lock_path of confirm_profile, <<>> before it ran
    activate_lock_path,  \* lock_path of activation_confirmation
    wait_lock_path,      \* lock_path of wait
    \* ---- the settings merge of one unit, for one scalar setting -------------
    field,               \* the setting looked at
    cmd_settings,        \* its value on the command line
    profile_settings,    \* its value in profile.generic_settings
    node_settings,       \* its value in node.generic_settings
    top_settings,        \* its value in the root's generic_settings
    merged_settings,     \* merged_settings of DeployData::new (src/data.rs)
    mdd_merged_settings, \* merged_settings of make_deploy_data (src/lib.rs)
    \* ---- target resolution (src/data.rs Target::resolve) -------------------
    target,              \* the Target: [node, profile, ip], "None" when absent
    hostname,            \* the command-line hostname override, or "None"
    profiles_order,      \* profiles_order of node n1
    profile_keys,        \* profiles.keys() of node n1, in iteration order
    node_hostname,       \* hostname of node n1, or "None"
    node_keys,           \* the root's nodes, in iteration order
    user_set,            \* user or ssh_user is set in the merged settings
    sockets_ok,          \* to_socket_addrs succeeds on the hostname
    resolved,            \* result of Target::resolve (src/data.rs)
    to_deploy,           \* to_deploy of run_deploy (src/cli.rs)
    \* ---- Target::from_str (src/data.rs), parse_flake (src/lib.rs) ----
    descriptor,          \* the target descriptor given on the command line
    written,             \* the parts the descriptor was written from    
    parsed,              \* result of descriptor.parse::<Target>()
    deploy_flake,        \* result of parse_flake(descriptor)
    run_ret,             \* how far run (src/cli.rs) got
    \* ---- the remote command lines (src/deploy.rs) ----------------------
    data,                \* the fields of the unit the builders read
    activate_command,    \* self_activate_command of deploy_profile
    wait_command,        \* self_wait_command of deploy_profile
    revoke_command,      \* self_revoke_command of revoke
    confirm_command,     \* confirm_command of confirm_profile
    \* ---- the cache of SSH control masters (src/ssh.rs) -----------------
    masters,             \* SshMultiplexer.masters: entries (key, master)
    mutex,               \* the task holding the Mutex around masters, or 0
    spc,                 \* where each task is in get_or_create / close_all
    sarg,                \* hostname and ssh_user of each task's call
    sret,                \* what each task's last call returned
    started,             \* (key, master) started since the last close_all
    nstarted,            \* control masters started so far
    ncalls,              \* calls made so far
    \* ---- the timers of activate and wait (src/bin/activate.rs) ---------
    confirm_timeout,     \* --confirm-timeout of activate
    activation_timeout,  \* --activation-timeout of wait: <<>> or <<secs>>
    lock_file,           \* whether the lock path exists
    tmpc,                \* where each invocation is
    elapsed,             \* seconds since it entered danger_zone, -1 before
    tmdead,              \* `elapsed` at which its blocking step ends at the latest
    tmchan,              \* the channel its watcher callback sends on
    tmret                \* what it returned

setvars  == <<dry_activate, magic_rollback, auto_rollback, boot>>
runvars  == <<nparts, rollback_succeeded, cmd_auto_rollback, decl_auto_rollback,
              rpc, part, rev, succeeded, calls, rResult>>
tgtvars  == <<gens, cur, sentinel, priorGens, priorCur>>
actvars  == <<apc, aErr, aRet, aLastGen, awatch, achan, aHist>>
waitvars == <<wpc, wRet, wwatch, wchan, wHist>>
depvars  == <<dpc, dRet, cRet, tpc, send_activate, send_activated,
              recv_activate, recv_activated, dHist>>
envvars  == <<round, hups>>
pathvars == <<temp_path, closure, confirm_lock_path, activate_lock_path,
              wait_lock_path>>
mergevars == <<field, cmd_settings, profile_settings, node_settings,
               top_settings, merged_settings, mdd_merged_settings>>
resvars   == <<target, hostname, profiles_order, profile_keys, node_hostname,
               node_keys, user_set, sockets_ok, resolved, to_deploy>>
parsevars == <<descriptor, written, parsed, deploy_flake, run_ret>>
cmdvars   == <<data, activate_command, wait_command, revoke_command,
               confirm_command>>
textvars  == <<parsevars, cmdvars>>
sshvars   == <<masters, mutex, spc, sarg, sret, started, nstarted, ncalls>>
timevars  == <<confirm_timeout, activation_timeout, lock_file, tmpc, elapsed,
               tmdead, tmchan, tmret>>
auxvars   == <<sshvars, timevars>>
purevars  == <<mergevars, resvars, textvars, auxvars>>
protovars == <<setvars, runvars, tgtvars, actvars, waitvars, depvars, envvars>>
vars      == <<protovars, pathvars, purevars>>

(***************************************************************************)
(* Bounds of the model.                                                    *)
(***************************************************************************)
MaxParts     == 3     \* parts of a run
MaxPriorGens == 2     \* generations a profile has before the deployment
MaxRounds    == 2     \* deployments of the closure to the same target
MaxTempLen   == 2     \* characters of a temp_path
MaxHashLen   == 2     \* characters of the hash part of a closure
MaxNameLen   == 2     \* characters of the name part of a closure
MaxSighups   == 2     \* SIGHUPs delivered to one activate process
MaxOrderLen  == 2     \* entries of a node's profiles_order
MaxDepth     == 3     \* components of the attribute path of a descriptor
MaxTasks     == 2     \* tasks sharing one SshMultiplexer
MaxSshCalls  == 3     \* calls of get_or_create and close_all in a run
MaxTimeout   == 2     \* seconds given as --confirm-timeout, --activation-timeout
MaxCommandSecs == 2   \* seconds the rollback sequence takes at most

(***************************************************************************)
(* Option<bool> as the three values "None", "Some(true)", "Some(false)".   *)
(***************************************************************************)
OptionBool == {"None", "Some(true)", "Some(false)"}

unwrap_or(o, d) == IF o = "None" THEN d ELSE (o = "Some(true)")

(***************************************************************************)
(* SpecDeploy: run_deploy, src/cli.rs lines 539-583.                       *)
(***************************************************************************)

\* make_deploy_data: a command-line auto_rollback replaces the declared one
merged_auto_rollback(p) ==
    IF cmd_auto_rollback # "None" THEN cmd_auto_rollback ELSE decl_auto_rollback[p]

Call(op, p, res) == [op |-> op, unit |-> p, res |-> res]

IdleRun ==
    /\ nparts = 0
    /\ rollback_succeeded = FALSE
    /\ cmd_auto_rollback = "None"
    /\ decl_auto_rollback = <<>>
    /\ rpc = "idle"
    /\ part = 0
    /\ rev = 0
    /\ succeeded = <<>>
    /\ calls = <<>>
    /\ rResult = "none"

IdlePath ==
    /\ temp_path = <<>>
    /\ closure = <<>>
    /\ confirm_lock_path = <<>>
    /\ activate_lock_path = <<>>
    /\ wait_lock_path = <<>>

IdleMerge ==
    /\ field = "none"
    /\ cmd_settings = "None"
    /\ profile_settings = "None"
    /\ node_settings = "None"
    /\ top_settings = "None"
    /\ merged_settings = "unmerged"
    /\ mdd_merged_settings = "unmerged"

\* a result: kind is "none" (not computed), "Ok", "Err" or "Panic"
Result(kind, err, units) == [kind |-> kind, err |-> err, units |-> units]

NoResult == Result("none", "none", <<>>)

IdleResolve ==
    /\ target = [node |-> "None", profile |-> "None", ip |-> "None"]
    /\ hostname = "None"
    /\ profiles_order = <<>>
    /\ profile_keys = <<>>
    /\ node_hostname = "None"
    /\ node_keys = <<>>
    /\ user_set = FALSE
    /\ sockets_ok = FALSE
    /\ resolved = NoResult
    /\ to_deploy = NoResult

\* Option<String>::None among strings that are sequences of characters
None == <<"None">>

\* a parse result: kind is "none" (not computed), "Ok" or "Err"
Parsed(kind, err, repo, node, profile, ip) ==
    [kind |-> kind, err |-> err, repo |-> repo, node |-> node,
     profile |-> profile, ip |-> ip]

NotParsed == Parsed("none", "none", <<>>, None, None, None)

IdleParse ==
    /\ descriptor = <<>>
    /\ written = [repo |-> <<>>, hash |-> FALSE, path |-> <<>>, host |-> None]
    /\ parsed = NotParsed
    /\ deploy_flake = NotParsed
    /\ run_ret = "none"

\* the unit's fields before any is known
NoData ==
    [sudo |-> "None", closure |-> "none", profile_path |-> "none",
     temp_path |-> "none", confirm_timeout |-> "none", magic_rollback |-> FALSE,
     auto_rollback |-> FALSE, dry_activate |-> FALSE, debug_logs |-> FALSE,
     log_dir |-> "None"]

IdleCommand ==
    /\ data = NoData
    /\ activate_command = <<>>
    /\ wait_command = <<>>
    /\ revoke_command = <<>>
    /\ confirm_command = <<>>

IdleText ==
    /\ IdleParse
    /\ IdleCommand

\* the tasks that share the SshMultiplexer
Tasks == 1..MaxTasks

NoCall == [op |-> "none", hostname |-> <<>>, ssh_user |-> None]

\* no call has returned / close_all has returned
SshNone == [kind |-> "none", id |-> 0, err |-> "none"]
SshClosed == [kind |-> "closed", id |-> 0, err |-> "none"]

IdleSsh ==
    /\ masters = {}
    /\ mutex = 0
    /\ spc = [t \in Tasks |-> "idle"]
    /\ sarg = [t \in Tasks |-> NoCall]
    /\ sret = [t \in Tasks |-> SshNone]
    /\ started = {}
    /\ nstarted = 0
    /\ ncalls = 0

\* the two subcommands of the activate binary that wait on a timer
Invocations == {"activate", "wait"}

IdleTime ==
    /\ confirm_timeout = 0
    /\ activation_timeout = <<>>
    /\ lock_file = FALSE
    /\ tmpc = [i \in Invocations |-> "idle"]
    /\ elapsed = [i \in Invocations |-> -1]
    /\ tmdead = [i \in Invocations |-> -1]
    /\ tmchan = [i \in Invocations |-> <<>>]
    /\ tmret = [i \in Invocations |-> "none"]

IdleAux ==
    /\ IdleSsh
    /\ IdleTime

IdlePure ==
    /\ IdleMerge
    /\ IdleResolve
    /\ IdleText
    /\ IdleAux

IdleUnit ==
    /\ magic_rollback = FALSE
    /\ auto_rollback = FALSE
    /\ boot = FALSE
    /\ gens = <<>>
    /\ cur = 0
    /\ sentinel = FALSE
    /\ priorGens = <<>>
    /\ priorCur = 0
    /\ apc = "idle"
    /\ aErr = "none"
    /\ aRet = "none"
    /\ aLastGen = 0
    /\ awatch = FALSE
    /\ achan = <<>>
    /\ aHist = {}
    /\ wpc = "idle"
    /\ wRet = "none"
    /\ wwatch = FALSE
    /\ wchan = <<>>
    /\ wHist = {}
    /\ round = 1
    /\ hups = 0
    /\ dpc = "idle"
    /\ dRet = "none"
    /\ cRet = "none"
    /\ tpc = "idle"
    /\ send_activate = "empty"
    /\ send_activated = "empty"
    /\ recv_activate = FALSE
    /\ recv_activated = FALSE
    /\ dHist = {}

InitDeploy ==
    /\ IdleUnit
    /\ IdlePath
    /\ IdlePure
    /\ dry_activate \in BOOLEAN
    /\ nparts \in 1..MaxParts
    /\ rollback_succeeded \in BOOLEAN
    /\ cmd_auto_rollback \in OptionBool
    /\ decl_auto_rollback \in [1..nparts -> OptionBool]
    /\ rpc = "push"
    /\ part = 1
    /\ rev = 0
    /\ succeeded = <<>>
    /\ calls = <<>>
    /\ rResult = "none"

RunFrame == UNCHANGED <<setvars, tgtvars, actvars, waitvars, depvars, envvars,
                        pathvars, purevars, nparts, rollback_succeeded, cmd_auto_rollback,
                        decl_auto_rollback>>

\* `return r` of run_deploy
Return(r) ==
    /\ rpc' = "returned"
    /\ rResult' = r

\* the push loop without the `?`: a failed push does not end run_deploy
PushProfile_failure_ignored ==
    /\ rpc = "push"
    /\ \E ok \in BOOLEAN :
         /\ calls' = Append(calls, Call("push", part, IF ok THEN "Ok" ELSE "Err"))
         /\ rResult' = rResult
         /\ IF part < nparts
              THEN part' = part + 1 /\ rpc' = rpc
              ELSE part' = 1 /\ rpc' = "deploy"
    /\ UNCHANGED <<rev, succeeded>>
    /\ RunFrame

\* for ... in &parts { push_profile(..).await?; }
PushProfile ==
    /\ rpc = "push"
    /\ \E ok \in BOOLEAN :
         /\ calls' = Append(calls, Call("push", part, IF ok THEN "Ok" ELSE "Err"))
         /\ IF ~ok
              THEN Return("Err") /\ UNCHANGED part
              ELSE /\ rResult' = rResult
                   /\ IF part < nparts
                        THEN part' = part + 1 /\ rpc' = rpc
                        ELSE part' = 1 /\ rpc' = "deploy"
    /\ UNCHANGED <<rev, succeeded>>
    /\ RunFrame

\* the deployment loop reaches its next part and calls deploy_profile
DeployCall ==
    /\ rpc = "deploy"
    /\ part <= nparts
    /\ calls' = Append(calls, Call("activate", part, "call"))
    /\ rpc' = "deploying"
    /\ UNCHANGED <<part, rev, succeeded, rResult>>
    /\ RunFrame

\* the deployment loop is past the last part: Ok(())
DeployLoopEnd ==
    /\ rpc = "deploy"
    /\ part > nparts
    /\ Return("Ok")
    /\ UNCHANGED <<part, rev, succeeded, calls>>
    /\ RunFrame

\* Break with the `break` lost: the loop goes on with the next part
Break_continue ==
    /\ rpc' = "deploy"
    /\ part' = part + 1
    /\ UNCHANGED <<rev, succeeded, rResult>>

\* `break` of the deployment loop, then the Ok(()) that ends run_deploy
Break ==
    /\ Return("Ok")
    /\ UNCHANGED <<part, rev, succeeded>>

\* the guard of the revocation loop
RevokeGuard == rollback_succeeded /\ unwrap_or(cmd_auto_rollback, TRUE)

\* the body of `if let Err(e) = deploy_profile(..)`, up to the revocation loop
OnDeployError ==
    IF RevokeGuard
      THEN /\ rpc' = "revoke"
           /\ rev' = 1
           /\ UNCHANGED <<part, succeeded, rResult>>
      ELSE Break

\* deploy_profile returns: Ok pushes the part onto succeeded, Err enters the
\* error branch, a panic inside deploy_profile unwinds through run_deploy
DeployReturn ==
    /\ rpc = "deploying"
    /\ \E r \in {"Ok", "Err", "Panic"} :
         /\ calls' = Append(calls, Call("activate", part, r))
         /\ CASE r = "Ok" ->
                   /\ succeeded' = Append(succeeded, part)
                   /\ part' = part + 1
                   /\ rpc' = "deploy"
                   /\ UNCHANGED <<rev, rResult>>
              [] r = "Err" -> OnDeployError
              [] r = "Panic" ->
                   /\ rpc' = "panicked"
                   /\ rResult' = "Panic"
                   /\ UNCHANGED <<part, rev, succeeded>>
    /\ RunFrame

\* what the revocation loop does when revoke() returns Err: `.await?`
OnRevokeError ==
    /\ Return("Err")
    /\ UNCHANGED rev

\* one iteration of `for (deploy_data, deploy_defs) in &succeeded`
RevokeStep ==
    /\ rpc = "revoke"
    /\ rev <= Len(succeeded)
    /\ IF unwrap_or(merged_auto_rollback(succeeded[rev]), TRUE)
         THEN \E ok \in BOOLEAN :
                /\ calls' = Append(calls, Call("revoke", succeeded[rev],
                                               IF ok THEN "Ok" ELSE "Err"))
                /\ IF ok
                     THEN rev' = rev + 1 /\ UNCHANGED <<rpc, rResult>>
                     ELSE OnRevokeError
         ELSE /\ rev' = rev + 1
              /\ UNCHANGED <<calls, rpc, rResult>>
    /\ UNCHANGED <<part, succeeded>>
    /\ RunFrame

\* the revocation loop is past the last succeeded part: break
RevokeLoopEnd ==
    /\ rpc = "revoke"
    /\ rev > Len(succeeded)
    /\ Break
    /\ UNCHANGED calls
    /\ RunFrame

NextDeploy ==
    \/ PushProfile
    \/ DeployCall
    \/ DeployLoopEnd
    \/ DeployReturn
    \/ RevokeStep
    \/ RevokeLoopEnd

SpecDeploy == InitDeploy /\ [][NextDeploy]_vars

(***************************************************************************)
(* The target: the profile's generations as the host generation tool       *)
(* (nix-env -p profile ...) keeps them, and the closure being deployed.    *)
(***************************************************************************)
NewClosure == 0                       \* the closure this deployment activates

GenIds(g) == {g[k].id : k \in 1..Len(g)}

MaxId(S) == CHOOSE m \in S : \A x \in S : x <= m

\* nix-env --set closure: a new generation after the last one, unless the
\* last one already holds the closure; the last generation is made current
NixSetGens(g, new) ==
    IF g # <<>> /\ g[Len(g)].closure = new
      THEN g
      ELSE Append(g, [id |-> IF g = <<>> THEN 1 ELSE g[Len(g)].id + 1,
                      closure |-> new])

\* nix-env --rollback: the generation preceding the current one, if any
RollbackTargets(g, c) == {x \in GenIds(g) : x < c}

\* nix-env --list-generations | last line | first token
last_generation_id(g) == g[Len(g)].id

\* nix-env --delete-generations id
NixDeleteGen(g, id) == SelectSeq(g, LAMBDA x : x.id # id)

ClosureOf(g, c) == (CHOOSE x \in {g[k] : k \in 1..Len(g)} : x.id = c).closure

\* the profiles a deployment may find: 0..MaxPriorGens generations, the
\* last one current
PriorProfiles ==
    {[k \in 1..n |-> [id |-> k, closure |-> k]] : n \in 0..MaxPriorGens}

(***************************************************************************)
(* The agent's `activate` subcommand, src/bin/activate.rs lines 416-510,   *)
(* with activation_confirmation (278-327), danger_zone (264-276) and       *)
(* deactivate (176-240).  main (625-631) turns Err into exit code 1.       *)
(***************************************************************************)
ActFrame == UNCHANGED <<setvars, runvars, depvars, envvars, pathvars, purevars>>

\* activate() returns r; the watcher of activation_confirmation is dropped
AReturn(r) ==
    /\ apc' = "exited"
    /\ aRet' = r
    /\ awatch' = FALSE

\* deactivate(&profile_path).await?; return Err(err)
ADeactivate(err) ==
    /\ apc' = "deact_rollback"
    /\ aErr' = err
    /\ aRet' = aRet
    /\ awatch' = FALSE

\* exit code of the agent process: main maps Err to std::process::exit(1)
AgentExitCode == IF aRet = "Ok" THEN 0 ELSE 1

\* the guard with the local-failure rollback tied to magic_rollback
rollback_if_magic == magic_rollback /\ ~dry_activate

\* `if auto_rollback && !dry_activate { deactivate(..).await?; }`
rollback_on_local_failure == auto_rollback /\ ~dry_activate

\* nix-env -p profile --set closure (skipped when dry_activate)
ASetProfile ==
    /\ apc = "set_profile"
    /\ \E out \in {"exit0", "exitN", "run_error"} :
         CASE out = "exit0" ->
                /\ gens' = NixSetGens(gens, NewClosure)
                /\ cur' = gens'[Len(gens')].id
                /\ apc' = "run_script"
                /\ aHist' = aHist \cup {"set_ok"}
                /\ UNCHANGED <<aErr, aRet, awatch>>
           [] out = "exitN" ->
                /\ UNCHANGED <<gens, cur>>
                /\ IF rollback_on_local_failure
                     THEN /\ ADeactivate("SetProfile")
                          /\ aHist' = aHist \cup {"deact_called", "set_failed"}
                     ELSE /\ AReturn("SetProfile")
                          /\ aHist' = aHist \cup {"set_failed"}
                          /\ UNCHANGED aErr
           [] out = "run_error" ->
                /\ UNCHANGED <<gens, cur>>
                /\ AReturn("SetProfile")
                /\ UNCHANGED <<aErr, aHist>>
    /\ UNCHANGED <<sentinel, priorGens, priorCur, aLastGen, achan, waitvars>>
    /\ ActFrame

\* AfterScriptOk with --boot not looked at
AfterScriptOk_boot_ignored ==
    IF magic_rollback
      THEN /\ apc' = "create_dir"
           /\ UNCHANGED <<aErr, aRet, awatch>>
      ELSE /\ AReturn("Ok")
           /\ UNCHANGED aErr

\* what activate() does once the activation script has exited 0
AfterScriptOk ==
    IF magic_rollback /\ ~boot
      THEN /\ apc' = "create_dir"
           /\ UNCHANGED <<aErr, aRet, awatch>>
      ELSE /\ AReturn("Ok")
           /\ UNCHANGED aErr

\* the activation script with its exit code not looked at
ARunScript_exit_ignored ==
    /\ apc = "run_script"
    /\ \E out \in {"exit0", "exitN", "run_error"} :
         CASE out = "run_error" ->
                IF rollback_on_local_failure
                  THEN /\ ADeactivate("RunActivate")
                       /\ aHist' = aHist \cup {"deact_called"}
                  ELSE /\ AReturn("RunActivate")
                       /\ UNCHANGED <<aErr, aHist>>
           [] out # "run_error" /\ dry_activate ->
                /\ AReturn("Ok")
                /\ aHist' = aHist \cup (IF out = "exit0" THEN {"script_ok"}
                                                         ELSE {"script_failed"})
                /\ UNCHANGED aErr
           [] out # "run_error" /\ ~dry_activate ->
                /\ AfterScriptOk
                /\ aHist' = aHist \cup (IF out = "exit0" THEN {"script_ok"}
                                                         ELSE {"script_failed"})
    /\ UNCHANGED <<tgtvars, aLastGen, achan, waitvars>>
    /\ ActFrame

\* {activation_location}/deploy-rs-activate
ARunScript ==
    /\ apc = "run_script"
    /\ \E out \in {"exit0", "exitN", "run_error"} :
         CASE out = "run_error" ->
                IF rollback_on_local_failure
                  THEN /\ ADeactivate("RunActivate")
                       /\ aHist' = aHist \cup {"deact_called"}
                  ELSE /\ AReturn("RunActivate")
                       /\ UNCHANGED <<aErr, aHist>>
           [] out # "run_error" /\ dry_activate ->
                /\ AReturn("Ok")
                /\ aHist' = aHist \cup (IF out = "exit0" THEN {"script_ok"}
                                                         ELSE {"script_failed"})
                /\ UNCHANGED aErr
           [] out = "exit0" /\ ~dry_activate ->
                /\ AfterScriptOk
                /\ aHist' = aHist \cup {"script_ok"}
           [] out = "exitN" /\ ~dry_activate ->
                IF auto_rollback
                  THEN /\ ADeactivate("RunActivate")
                       /\ aHist' = aHist \cup {"deact_called", "script_failed"}
                  ELSE /\ AReturn("RunActivate")
                       /\ aHist' = aHist \cup {"script_failed"}
                       /\ UNCHANGED aErr
    /\ UNCHANGED <<tgtvars, aLastGen, achan, waitvars>>
    /\ ActFrame

\* `if let Err(err) = activation_confirmation(..)`: roll back, return err
AConfirmationFailed(tag) ==
    /\ ADeactivate("ActivationConfirmation")
    /\ aHist' = aHist \cup {"deact_called", tag}

\* fs::create_dir_all(parent)
ACreateDir ==
    /\ apc = "create_dir"
    /\ \E ok \in BOOLEAN :
         IF ok THEN /\ apc' = "create_file"
                    /\ UNCHANGED <<aErr, aRet, awatch, aHist>>
               ELSE AConfirmationFailed("CreateConfirmDir")
    /\ UNCHANGED <<tgtvars, aLastGen, achan, waitvars>>
    /\ ActFrame

\* the callback of wait's watcher on a Create(File) event for the lock path:
\* try_send(Ok(())) on a channel of capacity 1
wait_callback_create(ch) == IF ch = <<>> THEN <<"Ok">> ELSE ch

\* fs::File::create(&lock_path): a new file raises Create(File) in temp_path
ACreateFile ==
    /\ apc = "create_file"
    /\ \E ok \in BOOLEAN :
         IF ok THEN /\ sentinel' = TRUE
                    /\ wchan' = IF ~sentinel /\ wwatch
                                  THEN wait_callback_create(wchan) ELSE wchan
                    /\ apc' = "arm_watcher"
                    /\ aHist' = aHist \cup {"sentinel_created"} \cup
                         (IF wpc = "arm_watcher" THEN {"created_before_arm"}
                          ELSE IF wpc = "check" THEN {"created_before_check"}
                          ELSE IF wpc = "danger_zone" THEN {"created_after_check"}
                          ELSE {})
                    /\ UNCHANGED <<aErr, aRet, awatch>>
               ELSE /\ AConfirmationFailed("CreateConfirmFile")
                    /\ UNCHANGED <<sentinel, wchan>>
    /\ UNCHANGED <<gens, cur, priorGens, priorCur, aLastGen, achan,
                   wpc, wRet, wwatch, wHist>>
    /\ ActFrame

\* recommended_watcher(..)?; watcher.watch(&lock_path, NonRecursive)?
\* watching a path that does not exist is an error
AArmWatcher ==
    /\ apc = "arm_watcher"
    /\ IF ~sentinel
         THEN AConfirmationFailed("watch_missing_path")
         ELSE \E ok \in BOOLEAN :
                IF ok THEN /\ apc' = "danger_zone"
                           /\ awatch' = TRUE
                           /\ aHist' = aHist \cup {"armed"}
                           /\ UNCHANGED <<aErr, aRet>>
                      ELSE AConfirmationFailed("watcher_fault")
    /\ UNCHANGED <<tgtvars, aLastGen, achan, waitvars>>
    /\ ActFrame

\* danger_zone with the elapsed timeout taken for a confirmation
danger_zone_elapsed_ok(r) ==
    CASE r = "SomeOk"  -> "Ok"
      [] r = "SomeErr" -> "Watch"
      [] r = "Elapsed" -> "Ok"

\* danger_zone: the match on timeout(confirm_timeout, events.recv())
\*   r = "SomeOk" | "SomeErr" | "Elapsed"
danger_zone(r) ==
    CASE r = "SomeOk"  -> "Ok"
      [] r = "SomeErr" -> "Watch"
      [] r = "Elapsed" -> "TimesUp"

\* what events.recv() under the timeout yields in the current state
Recv(ch) == IF ch = <<>> THEN "Elapsed"
            ELSE IF ch[1] = "Ok" THEN "SomeOk" ELSE "SomeErr"

\* danger_zone(done, confirm_timeout) resolves: an event is taken from the
\* channel, or the channel is empty and the timer fires
ADangerZone ==
    /\ apc = "danger_zone"
    /\ achan' = <<>>
    /\ IF danger_zone(Recv(achan)) = "Ok"
         THEN /\ AReturn("Ok")
              /\ aHist' = aHist \cup {"removal_observed"}
              /\ UNCHANGED aErr
         ELSE AConfirmationFailed(danger_zone(Recv(achan)))
    /\ UNCHANGED <<tgtvars, aLastGen, waitvars>>
    /\ ActFrame

\* the watcher reports an error: the callback does try_send(Err(e))
AWatcherError ==
    /\ awatch
    /\ achan = <<>>
    /\ achan' = <<"Err">>
    /\ aHist' = aHist \cup {"watcher_fault"}
    /\ UNCHANGED <<tgtvars, apc, aErr, aRet, aLastGen, awatch, waitvars>>
    /\ ActFrame

\* a failed step of deactivate() with the cause of the rollback returned
ADeactFailed_cause_kept(step) ==
    /\ AReturn(aErr)
    /\ aHist' = aHist \cup {step}

\* a step of deactivate() failed with the DeactivateError `step`:
\* activate() returns the Deactivate error
ADeactFailed(step) ==
    /\ AReturn("Deactivate")
    /\ aHist' = aHist \cup {step}

\* the rollback followed by the deletion, the listing left out
ADeactRollback_skips_list ==
    /\ apc = "deact_rollback"
    /\ \/ /\ RollbackTargets(gens, cur) # {}
          /\ cur' = MaxId(RollbackTargets(gens, cur))
          /\ apc' = "deact_delete"
          /\ UNCHANGED <<aRet, awatch, aHist>>
       \/ /\ ADeactFailed("Rollback")
          /\ UNCHANGED cur
    /\ UNCHANGED <<gens, sentinel, priorGens, priorCur, aErr, aLastGen, achan,
                   waitvars>>
    /\ ActFrame

\* nix-env -p profile --rollback
ADeactRollback ==
    /\ apc = "deact_rollback"
    /\ \/ /\ RollbackTargets(gens, cur) # {}
          /\ cur' = MaxId(RollbackTargets(gens, cur))
          /\ apc' = "deact_list"
          /\ UNCHANGED <<aRet, awatch, aHist>>
       \/ /\ ADeactFailed("Rollback")
          /\ UNCHANGED cur
    /\ UNCHANGED <<gens, sentinel, priorGens, priorCur, aErr, aLastGen, achan,
                   waitvars>>
    /\ ActFrame

\* nix-env -p profile --list-generations, last line, first token
ADeactList ==
    /\ apc = "deact_list"
    /\ \/ /\ aLastGen' = last_generation_id(gens)
          /\ apc' = "deact_delete"
          /\ UNCHANGED <<aRet, awatch, aHist>>
       \/ /\ ADeactFailed("ListGen")
          /\ UNCHANGED aLastGen
    /\ UNCHANGED <<tgtvars, aErr, achan, waitvars>>
    /\ ActFrame

\* nix-env -p profile --delete-generations id (the current one is refused)
ADeactDelete ==
    /\ apc = "deact_delete"
    /\ \/ /\ aLastGen # cur
          /\ gens' = NixDeleteGen(gens, aLastGen)
          /\ apc' = "deact_reactivate"
          /\ UNCHANGED <<aRet, awatch, aHist>>
       \/ /\ ADeactFailed("DeleteGen")
          /\ UNCHANGED gens
    /\ UNCHANGED <<cur, sentinel, priorGens, priorCur, aErr, aLastGen, achan,
                   waitvars>>
    /\ ActFrame

\* {profile_path}/deploy-rs-activate; then Ok(()) and the caller's return Err
ADeactReactivate ==
    /\ apc = "deact_reactivate"
    /\ \/ /\ AReturn(aErr)
          /\ aHist' = aHist \cup {"deact_done"}
       \/ ADeactFailed("Reactivate")
    /\ UNCHANGED <<tgtvars, aErr, aLastGen, achan, waitvars>>
    /\ ActFrame


(***************************************************************************)
(* The agent's `wait` subcommand, src/bin/activate.rs lines 336-381.       *)
(***************************************************************************)
WaitFrame == UNCHANGED <<setvars, runvars, tgtvars, actvars, depvars, envvars,
                         pathvars, purevars>>

WReturn(r) ==
    /\ wpc' = "exited"
    /\ wRet' = r
    /\ wwatch' = FALSE
    /\ wHist' = wHist \cup
                (IF r = "Ok" /\ apc = "exited" /\ AgentExitCode # 0
                   THEN {"ok_after_activate_failed"} ELSE {})

\* recommended_watcher(..)?; watcher.watch(&temp_path, NonRecursive)?
WArmWatcher ==
    /\ wpc = "arm_watcher"
    /\ \E ok \in BOOLEAN :
         IF ok THEN /\ wpc' = "check"
                    /\ wwatch' = TRUE
                    /\ UNCHANGED <<wRet, wHist>>
               ELSE WReturn("Watcher")
    /\ UNCHANGED wchan
    /\ WaitFrame

\* wait going on to danger_zone without looking for the lock path
WCheck_skipped ==
    /\ wpc = "check"
    /\ wpc' = "danger_zone"
    /\ UNCHANGED <<wRet, wwatch, wHist>>
    /\ UNCHANGED wchan
    /\ WaitFrame

\* if fs::metadata(&lock_path).await.is_ok() { unwatch; return Ok(()) }
WCheck ==
    /\ wpc = "check"
    /\ IF sentinel
         THEN WReturn("Ok")
         ELSE /\ wpc' = "danger_zone"
              /\ UNCHANGED <<wRet, wwatch, wHist>>
    /\ UNCHANGED wchan
    /\ WaitFrame

\* danger_zone(done, activation_timeout.unwrap_or(240)).await?
WDangerZone ==
    /\ wpc = "danger_zone"
    /\ wchan' = <<>>
    /\ WReturn(danger_zone(Recv(wchan)))
    /\ WaitFrame

\* the watcher reports an error: the callback does try_send(Err(e))
WWatcherError ==
    /\ wwatch
    /\ wchan = <<>>
    /\ wchan' = <<"Err">>
    /\ UNCHANGED <<wpc, wRet, wwatch, wHist>>
    /\ WaitFrame


(***************************************************************************)
(* deploy_profile, src/deploy.rs lines 269-409, with confirm_profile       *)
(* (209-248).  The ssh processes carry the agent's subcommands: an ssh     *)
(* process exits with the exit code of the agent process it runs.          *)
(***************************************************************************)
DepFrame == UNCHANGED <<setvars, runvars, envvars, pathvars, purevars>>

\* a process spawned by deploy_profile that has neither exited nor been killed
Running(pc) == pc \notin {"idle", "not_started", "exited", "killed"}

\* activate() with set-profile run also under dry_activate
activate_entry_always_set == "set_profile"

\* `if !dry_activate { nix-env --set .. }`: where activate() starts
activate_entry == IF dry_activate THEN "run_script" ELSE "set_profile"

\* the agent's activate starts on the target
StartActivate ==
    /\ apc' = activate_entry
    /\ UNCHANGED <<aErr, aRet, aLastGen, awatch, achan, aHist>>

\* deploy_profile returns r: its receivers are dropped
DReturn(r) ==
    /\ dpc' = "done"
    /\ dRet' = r
    /\ recv_activate' = FALSE
    /\ recv_activated' = FALSE

\* the branch taken on the setting of magic rollback alone
SimplePath_magic_only == ~magic_rollback

\* the branch `if !magic_rollback || dry_activate`
SimplePath == ~magic_rollback \/ dry_activate

\* deploy_profile up to its first await: on the simple path ssh activate is
\* spawned; on the magic path ssh activate, the task awaiting it and ssh wait
\* are spawned and the select! is entered
DStart ==
    /\ dpc = "start"
    /\ \E spawned \in BOOLEAN :
         IF ~spawned
           THEN /\ DReturn("Err")
                /\ UNCHANGED <<actvars, waitvars, tpc, dHist>>
           ELSE /\ StartActivate
                /\ IF SimplePath
                     THEN /\ dpc' = "simple"
                          /\ UNCHANGED <<waitvars, tpc, recv_activate,
                                         recv_activated, dRet>>
                     ELSE /\ dpc' = "select"
                          /\ tpc' = "wait_with_output"
                          /\ recv_activate' = TRUE
                          /\ recv_activated' = TRUE
                          /\ wpc' = "arm_watcher"
                          /\ UNCHANGED <<wRet, wwatch, wchan, wHist, dRet>>
                /\ dHist' = dHist \cup {"activate_spawned"}
    /\ UNCHANGED <<tgtvars, cRet, send_activate, send_activated>>
    /\ DepFrame

\* simple path: ssh_activate_command.status().await and its exit code
DSimpleExit ==
    /\ dpc = "simple"
    /\ apc = "exited"
    /\ DReturn(IF AgentExitCode = 0 THEN "Ok" ELSE "Err")
    /\ UNCHANGED <<tgtvars, actvars, waitvars, cRet, tpc, send_activate,
                   send_activated, dHist>>
    /\ DepFrame

\* select! branch 1 going on to the confirmation whatever the exit code
DSelectWait_any_exit ==
    /\ dpc = "select"
    /\ wpc = "exited"
    /\ dpc' = "confirm"
    /\ recv_activate' = FALSE
    /\ dHist' = dHist \cup {"wait_ok"} \cup
                (IF apc # "exited" THEN {"activate_running"} ELSE {})
    /\ UNCHANGED <<dRet, recv_activated>>
    /\ UNCHANGED <<tgtvars, actvars, waitvars, cRet, tpc, send_activate,
                   send_activated>>
    /\ DepFrame

\* select! branch 1: the ssh wait command has ended
DSelectWait ==
    /\ dpc = "select"
    /\ wpc = "exited"
    /\ IF wRet = "Ok"
         THEN /\ dpc' = "confirm"
              /\ recv_activate' = FALSE
              /\ dHist' = dHist \cup {"wait_ok"} \cup
                          (IF apc # "exited" THEN {"activate_running"} ELSE {})
              /\ UNCHANGED <<dRet, recv_activated>>
         ELSE /\ DReturn("Err")
              /\ UNCHANGED dHist
    /\ UNCHANGED <<tgtvars, actvars, waitvars, cRet, tpc, send_activate,
                   send_activated>>
    /\ DepFrame

\* select! branch 2: recv_activate resolved; x.unwrap() panics when the
\* sender was dropped without a value
DSelectActivate ==
    /\ dpc = "select"
    /\ send_activate # "empty"
    /\ DReturn(IF send_activate = "full" THEN "Err" ELSE "Panic")
    /\ UNCHANGED <<tgtvars, actvars, waitvars, cRet, tpc, send_activate,
                   send_activated, dHist>>
    /\ DepFrame

\* the callback of activate's watcher on a Remove(File) event:
\* try_send(Ok(())) on a channel of capacity 1
activate_callback_remove(ch) == IF ch = <<>> THEN <<"Ok">> ELSE ch

\* confirm_profile: ssh addr "[sudo] rm lock_path" and its exit code
DConfirm ==
    /\ dpc = "confirm"
    /\ \E ran \in BOOLEAN :
         IF ran /\ sentinel
           THEN /\ sentinel' = FALSE
                /\ achan' = IF awatch THEN activate_callback_remove(achan)
                                      ELSE achan
                /\ cRet' = "Ok"
                /\ dHist' = dHist \cup {"confirm_issued", "rm_ok"} \cup
                     (IF apc \in {"arm_watcher", "danger_zone"}
                        THEN {"rm_in_time"} ELSE {}) \cup
                     (IF awatch /\ achan = <<>>
                        THEN {"remove_event"} ELSE {})
           ELSE /\ cRet' = "Err"
                /\ dHist' = dHist \cup {"confirm_issued"}
                /\ UNCHANGED <<sentinel, achan>>
    /\ dpc' = "recv_activated"
    /\ UNCHANGED <<gens, cur, priorGens, priorCur, apc, aErr, aRet, aLastGen,
                   awatch, aHist, waitvars, dRet, tpc, send_activate,
                   send_activated, recv_activate, recv_activated>>
    /\ DepFrame

\* recv_activated.await.unwrap(); c?; thread.await..?; Ok(())
DRecvActivated ==
    /\ dpc = "recv_activated"
    /\ send_activated # "empty"
    /\ DReturn(IF send_activated = "closed" THEN "Panic"
               ELSE IF cRet = "Ok" THEN "Ok" ELSE "Err")
    /\ UNCHANGED <<tgtvars, actvars, waitvars, cRet, tpc, send_activate,
                   send_activated, dHist>>
    /\ DepFrame

\* the spawned task: ssh_activate.wait_with_output().await and maybe_err
TWaitWithOutput ==
    /\ tpc = "wait_with_output"
    /\ apc = "exited"
    /\ tpc' = IF AgentExitCode = 0 THEN "send_activated" ELSE "send_activate"
    /\ UNCHANGED <<tgtvars, actvars, waitvars, dpc, dRet, cRet, send_activate,
                   send_activated, recv_activate, recv_activated, dHist>>
    /\ DepFrame

\* a panic of the spawned task drops both senders
TPanic ==
    /\ tpc' = "panicked"
    /\ send_activate' = IF send_activate = "empty" THEN "closed" ELSE send_activate
    /\ send_activated' = "closed"

\* send_activate.send(err).unwrap(): send fails when the receiver is gone
TSendActivate ==
    /\ tpc = "send_activate"
    /\ IF recv_activate
         THEN /\ send_activate' = "full"
              /\ tpc' = "send_activated"
              /\ UNCHANGED send_activated
         ELSE TPanic
    /\ UNCHANGED <<tgtvars, actvars, waitvars, dpc, dRet, cRet,
                   recv_activate, recv_activated, dHist>>
    /\ DepFrame

\* send_activated.send(()).unwrap(); the task ends and drops send_activate
TSendActivated ==
    /\ tpc = "send_activated"
    /\ IF recv_activated
         THEN /\ send_activated' = "full"
              /\ send_activate' = IF send_activate = "empty" THEN "closed"
                                                              ELSE send_activate
              /\ tpc' = "finished"
         ELSE TPanic
    /\ UNCHANGED <<tgtvars, actvars, waitvars, dpc, dRet, cRet,
                   recv_activate, recv_activated, dHist>>
    /\ DepFrame

\* the operator deploys the same closure to the same target and temp_path
\* again, once the processes of the previous deployment are gone: a new
\* call of deploy_profile, and new agent processes, on the target as it is
Redeploy ==
    /\ dpc = "done"
    /\ round < MaxRounds
    /\ ~Running(apc) /\ ~Running(wpc)
    /\ tpc \in {"not_started", "finished", "panicked"}
    /\ round' = round + 1
    /\ priorGens' = gens
    /\ priorCur' = cur
    /\ apc' = "not_started"
    /\ aErr' = "none"
    /\ aRet' = "none"
    /\ aLastGen' = 0
    /\ awatch' = FALSE
    /\ achan' = <<>>
    /\ aHist' = {}
    /\ wpc' = "not_started"
    /\ wRet' = "none"
    /\ wwatch' = FALSE
    /\ wchan' = <<>>
    /\ wHist' = {}
    /\ dpc' = "start"
    /\ dRet' = "none"
    /\ cRet' = "none"
    /\ tpc' = "not_started"
    /\ send_activate' = "empty"
    /\ send_activated' = "empty"
    /\ recv_activate' = FALSE
    /\ recv_activated' = FALSE
    /\ dHist' = {}
    /\ UNCHANGED <<setvars, runvars, gens, cur, sentinel, hups, pathvars, purevars>>

InitUnit ==
    /\ IdleRun
    /\ IdlePath
    /\ IdlePure
    /\ dry_activate \in BOOLEAN
    /\ magic_rollback \in BOOLEAN
    /\ auto_rollback \in BOOLEAN
    /\ boot = FALSE
    /\ gens \in PriorProfiles
    /\ cur = Len(gens)
    /\ sentinel = FALSE
    /\ priorGens = gens
    /\ priorCur = cur
    /\ apc = "not_started"
    /\ aErr = "none"
    /\ aRet = "none"
    /\ aLastGen = 0
    /\ awatch = FALSE
    /\ achan = <<>>
    /\ aHist = {}
    /\ wpc = "not_started"
    /\ wRet = "none"
    /\ wwatch = FALSE
    /\ wchan = <<>>
    /\ wHist = {}
    /\ round = 1
    /\ hups = 0
    /\ dpc = "start"
    /\ dRet = "none"
    /\ cRet = "none"
    /\ tpc = "not_started"
    /\ send_activate = "empty"
    /\ send_activated = "empty"
    /\ recv_activate = FALSE
    /\ recv_activated = FALSE
    /\ dHist = {}

NextUnit ==
    \/ DStart
    \/ DSimpleExit
    \/ DSelectWait
    \/ DSelectActivate
    \/ DConfirm
    \/ DRecvActivated
    \/ TWaitWithOutput
    \/ TSendActivate
    \/ TSendActivated
    \/ ASetProfile
    \/ ARunScript
    \/ ACreateDir
    \/ ACreateFile
    \/ AArmWatcher
    \/ ADangerZone
    \/ AWatcherError
    \/ ADeactRollback
    \/ ADeactList
    \/ ADeactDelete
    \/ ADeactReactivate
    \/ WArmWatcher
    \/ WCheck
    \/ WDangerZone
    \/ WWatcherError
    \/ Redeploy

SpecUnit == InitUnit /\ [][NextUnit]_vars

(***************************************************************************)
(* SpecAgent: the agent's `activate` run on its own, src/bin/activate.rs   *)
(* main (572-634) and activate (416-510), with every combination of        *)
(* --dry-activate, --boot, --magic-rollback and --auto-rollback.  Its       *)
(* environment may remove the sentinel (the controller's `rm`) and may      *)
(* deliver SIGHUP to the process.                                           *)
(***************************************************************************)
InitAgent ==
    /\ IdleRun
    /\ IdlePath
    /\ IdlePure
    /\ dry_activate \in BOOLEAN
    /\ magic_rollback \in BOOLEAN
    /\ auto_rollback \in BOOLEAN
    /\ boot \in BOOLEAN
    /\ gens \in PriorProfiles
    /\ cur = Len(gens)
    /\ sentinel = FALSE
    /\ priorGens = gens
    /\ priorCur = cur
    /\ apc = activate_entry
    /\ aErr = "none"
    /\ aRet = "none"
    /\ aLastGen = 0
    /\ awatch = FALSE
    /\ achan = <<>>
    /\ aHist = {}
    /\ wpc = "idle"
    /\ wRet = "none"
    /\ wwatch = FALSE
    /\ wchan = <<>>
    /\ wHist = {}
    /\ round = 1
    /\ hups = 0
    /\ dpc = "idle"
    /\ dRet = "none"
    /\ cRet = "none"
    /\ tpc = "idle"
    /\ send_activate = "empty"
    /\ send_activated = "empty"
    /\ recv_activate = FALSE
    /\ recv_activated = FALSE
    /\ dHist = {}

\* the sentinel is removed from outside the agent (`rm lock_path` of
\* confirm_profile): the armed watcher's callback sees Remove(File)
EnvRemoveSentinel ==
    /\ dpc = "idle"
    /\ sentinel
    /\ sentinel' = FALSE
    /\ achan' = IF awatch THEN activate_callback_remove(achan) ELSE achan
    /\ dHist' = dHist \cup {"rm_ok"} \cup
                (IF awatch /\ achan = <<>> THEN {"remove_event"} ELSE {})
    /\ UNCHANGED <<setvars, runvars, envvars, pathvars, purevars, waitvars,
                   gens, cur, priorGens, priorCur,
                   apc, aErr, aRet, aLastGen, awatch, aHist,
                   dpc, dRet, cRet, tpc, send_activate, send_activated,
                   recv_activate, recv_activated>>

\* SIGHUP left at its default disposition
sighup_default == "terminate"

\* main: Signals::new(&[SIGHUP]) and the thread that logs
\* "Received SIGHUP - ignoring..." for every signal
sighup_disposition == "ignore"

\* a SIGHUP is delivered to the running activate process
ASighup ==
    /\ Running(apc)
    /\ hups < MaxSighups
    /\ hups' = hups + 1
    /\ aHist' = aHist \cup
                (IF apc = "danger_zone" THEN {"hup_in_danger_zone"} ELSE {})
    /\ IF sighup_disposition = "ignore"
         THEN UNCHANGED <<apc, aRet, awatch>>
         ELSE /\ apc' = "killed"
              /\ aRet' = "SIGHUP"
              /\ awatch' = FALSE
    /\ UNCHANGED <<setvars, runvars, round, pathvars, purevars, tgtvars, waitvars,
                   depvars, aErr, aLastGen, achan>>

\* a step of the activate process itself
AgentStep ==
    \/ ASetProfile
    \/ ARunScript
    \/ ACreateDir
    \/ ACreateFile
    \/ AArmWatcher
    \/ ADangerZone
    \/ ADeactRollback
    \/ ADeactList
    \/ ADeactDelete
    \/ ADeactReactivate

NextAgent ==
    \/ AgentStep
    \/ AWatcherError
    \/ EnvRemoveSentinel
    \/ ASighup

SpecAgent == InitAgent /\ [][NextAgent]_vars

\* the activate process is scheduled until it exits: every command it runs
\* ends, and the timer of danger_zone expires when no event arrives
SpecAgentFair == SpecAgent /\ WF_vars(AgentStep)

(***************************************************************************)
(* SpecWatch: the callbacks of the two watchers in full,                    *)
(* src/bin/activate.rs lines 301-321 (activation_confirmation, watching     *)
(* the lock path) and 342-363 (wait, watching temp_path).                   *)
(***************************************************************************)
EventKinds == {"Create(File)", "Remove(File)", "Modify", "Access"}

Event(kind, path) == [kind |-> kind, path |-> path]

\* the callback of activation_confirmation on Ok(e)
activate_callback(e, ch) ==
    IF e.kind = "Remove(File)" THEN activate_callback_remove(ch) ELSE ch

\* the callback of wait with every Create(File) taken for the lock path's
wait_callback_any_path(e, exists, ch) ==
    IF e.kind = "Create(File)" THEN wait_callback_create(ch) ELSE ch

\* the callback of wait on Ok(e); exists: lock_path.canonicalize() is Ok
wait_callback(e, exists, ch) ==
    IF e.kind = "Create(File)" /\ exists /\ e.path = "lock"
      THEN wait_callback_create(ch) ELSE ch

InitWatch ==
    /\ InitAgent
    /\ ~dry_activate
    /\ magic_rollback
    /\ ~boot

\* wait is started beside the running activate
WStart ==
    /\ wpc = "idle"
    /\ wpc' = "arm_watcher"
    /\ UNCHANGED <<wRet, wwatch, wchan, wHist>>
    /\ WaitFrame

\* the lock path, watched by activate, raises an event that is not its removal
AOtherEvent ==
    /\ awatch
    /\ sentinel
    /\ \E kind \in EventKinds \ {"Remove(File)", "Create(File)"} :
          achan' = activate_callback(Event(kind, "lock"), achan)
    /\ aHist' = aHist \cup {"other_event"}
    /\ UNCHANGED <<tgtvars, apc, aErr, aRet, aLastGen, awatch, waitvars>>
    /\ ActFrame

\* temp_path, watched by wait, raises an event for another file, or an event
\* for the lock path that is not its creation
WOtherEvent ==
    /\ wwatch
    /\ \E e \in {Event(kind, "other") : kind \in EventKinds}
                \cup {Event(kind, "lock") :
                         kind \in IF sentinel THEN {"Modify", "Access"} ELSE {}} :
          wchan' = wait_callback(e, sentinel, wchan)
    /\ wHist' = wHist \cup {"other_event"}
    /\ UNCHANGED <<wpc, wRet, wwatch>>
    /\ WaitFrame

NextWatch ==
    \/ AgentStep
    \/ AWatcherError
    \/ EnvRemoveSentinel
    \/ WStart
    \/ WArmWatcher
    \/ WCheck
    \/ WDangerZone
    \/ WWatcherError
    \/ AOtherEvent
    \/ WOtherEvent

SpecWatch == InitWatch /\ [][NextWatch]_vars

(***************************************************************************)
(* SpecPath: make_lock_path, src/lib.rs lines 20-24, applied by             *)
(* confirm_profile (src/deploy.rs 222), activation_confirmation             *)
(* (src/bin/activate.rs 283) and wait (src/bin/activate.rs 337).  The       *)
(* controller puts temp_path and the closure on the agent's command line    *)
(* (build_activate_command, build_wait_command); the agent applies the      *)
(* function to the arguments it was given.                                 *)
(***************************************************************************)
Seqs(S, n) == UNION {[1..k -> S] : k \in 1..n}

TempChars == {"/", "t", "-"}
HashChars == {"a", "0"}
NameChars == {"n", "-"}

\* "/nix/store/"
StorePrefix == <<"/", "n", "i", "x", "/", "s", "t", "o", "r", "e", "/">>

\* "/deploy-rs-canary-" of format!("{}/deploy-rs-canary-{}", ..)
CanaryInfix == <<"/", "d", "e", "p", "l", "o", "y", "-", "r", "s", "-",
                 "c", "a", "n", "a", "r", "y", "-">>

Occurrences(str, ch) == {i \in 1..Len(str) : str[i] = ch}

\* find with the last occurrence taken for the first
find_last(str, ch) ==
    IF Occurrences(str, ch) = {} THEN -1
    ELSE MaxId(Occurrences(str, ch)) - 1

\* str.find(ch): the 0-based index of the first occurrence, -1 for None
find(str, ch) ==
    IF Occurrences(str, ch) = {} THEN -1
    ELSE (CHOOSE i \in Occurrences(str, ch) :
             \A j \in Occurrences(str, ch) : i <= j) - 1

\* &str[from..to]; a range that is not within the string panics
slice(str, from, to) ==
    IF from <= to /\ to <= Len(str) THEN SubSeq(str, from + 1, to)
                                     ELSE <<"panic">>

make_lock_path(t, c) ==
    LET end       == IF find(c, "-") = -1 THEN Len(c) ELSE find(c, "-")
        lock_hash == slice(c, Len(StorePrefix), end)
    IN  IF lock_hash = <<"panic">> THEN <<"panic">>
        ELSE t \o CanaryInfix \o lock_hash

\* closures of the form /nix/store/<hash>-<name>
StoreClosures ==
    {StorePrefix \o h \o <<"-">> \o n :
        h \in Seqs(HashChars, MaxHashLen), n \in Seqs(NameChars, MaxNameLen)}

InitPath ==
    /\ IdleRun
    /\ IdleUnit
    /\ IdlePure
    /\ dry_activate = FALSE
    /\ temp_path \in Seqs(TempChars, MaxTempLen)
    /\ closure \in StoreClosures
    /\ confirm_lock_path = <<>>
    /\ activate_lock_path = <<>>
    /\ wait_lock_path = <<>>

PathFrame == UNCHANGED <<protovars, purevars, temp_path, closure>>

\* confirm_profile: make_lock_path(&temp_path, &profile_settings.path)
ConfirmLockPath ==
    /\ confirm_lock_path = <<>>
    /\ confirm_lock_path' = make_lock_path(temp_path, closure)
    /\ UNCHANGED <<activate_lock_path, wait_lock_path>>
    /\ PathFrame

\* activation_confirmation: deploy::make_lock_path(&temp_path, &closure)
ActivateLockPath ==
    /\ activate_lock_path = <<>>
    /\ activate_lock_path' = make_lock_path(temp_path, closure)
    /\ UNCHANGED <<confirm_lock_path, wait_lock_path>>
    /\ PathFrame

\* wait: deploy::make_lock_path(&temp_path, &closure)
WaitLockPath ==
    /\ wait_lock_path = <<>>
    /\ wait_lock_path' = make_lock_path(temp_path, closure)
    /\ UNCHANGED <<confirm_lock_path, activate_lock_path>>
    /\ PathFrame

NextPath ==
    \/ ConfirmLockPath
    \/ ActivateLockPath
    \/ WaitLockPath

SpecPath == InitPath /\ [][NextPath]_vars

(***************************************************************************)
(* SpecMerge: the merge of the command-line, profile, node and root value   *)
(* of one Option scalar of GenericSettings (src/settings.rs 11-53), as      *)
(* DeployData::new (src/data.rs 413-416) and make_deploy_data (src/lib.rs   *)
(* 380-401) do it.                                                          *)
(***************************************************************************)
OptionVals == {"None", "Some(x)", "Some(y)"}

\* the Option scalars of settings::GenericSettings
ScalarFields == {"ssh_user", "user", "confirm_timeout", "temp_path"}

\* the Option scalars of the GenericSettings make_deploy_data merges
MddScalarFields == ScalarFields \cup
                   {"fast_connection", "auto_rollback", "magic_rollback"}

\* the settings make_deploy_data replaces by their cmd_overrides value
MddOverridden == {"ssh_user", "user", "fast_connection", "auto_rollback",
                  "magic_rollback"}

\* merge with the later value winning
merge_later_wins(self, other) == IF other # "None" THEN other ELSE self

\* impl Merge for Option<T>: if self is None, self becomes other
merge(self, other) == IF self # "None" THEN self ELSE other

\* DeployData::new starting from the profile's settings
DeployData_new_profile_first(c, p, n, t) == merge(merge(merge(p, c), n), t)

\* DeployData::new: cmd_settings.clone(), then merge(profile), merge(node),
\* merge(top_settings)
DeployData_new(c, p, n, t) == merge(merge(merge(c, p), n), t)

\* make_deploy_data: profile.generic_settings.clone(), merge(node),
\* merge(top_settings), then the overrides that are Some replace the value
make_deploy_data(f, c, p, n, t) ==
    IF f \in MddOverridden /\ c # "None" THEN c
    ELSE merge(merge(p, n), t)

InitMerge ==
    /\ IdleRun
    /\ IdleUnit
    /\ IdlePath
    /\ IdleResolve
    /\ IdleText
    /\ IdleAux
    /\ dry_activate = FALSE
    /\ field \in MddScalarFields
    /\ cmd_settings \in OptionVals
    /\ profile_settings \in OptionVals
    /\ node_settings \in OptionVals
    /\ top_settings \in OptionVals
    /\ merged_settings = "unmerged"
    /\ mdd_merged_settings = "unmerged"

MergeFrame == UNCHANGED <<protovars, pathvars, resvars, textvars, auxvars, field, cmd_settings,
                          profile_settings, node_settings, top_settings>>

\* DeployData::new builds the unit's merged_settings
MergeNew ==
    /\ field \in ScalarFields
    /\ merged_settings = "unmerged"
    /\ merged_settings' = DeployData_new(cmd_settings, profile_settings,
                                         node_settings, top_settings)
    /\ UNCHANGED mdd_merged_settings
    /\ MergeFrame

\* make_deploy_data builds the unit's merged_settings
MergeMdd ==
    /\ mdd_merged_settings = "unmerged"
    /\ mdd_merged_settings' = make_deploy_data(field, cmd_settings,
                                               profile_settings, node_settings,
                                               top_settings)
    /\ UNCHANGED merged_settings
    /\ MergeFrame

NextMerge ==
    \/ MergeNew
    \/ MergeMdd

SpecMerge == InitMerge /\ [][NextMerge]_vars

(***************************************************************************)
(* SpecResolve: Target::resolve, src/data.rs lines 46-158, with the         *)
(* hostname part of DeployData::new (425-465), and the expansion of         *)
(* run_deploy, src/cli.rs lines 412-508.                                    *)
(***************************************************************************)
ProfileNames == {"a", "b", "c"}

Range(q) == {q[i] : i \in 1..Len(q)}

\* the orders a HashMap may iterate the keys S in
Perms(S) == {q \in [1..Cardinality(S) -> S] : Range(q) = S}

\* the root: node n1 as the variables describe it, node n2 with the single
\* profile a and a hostname
Profiles(n) == IF n = "n1" THEN profile_keys ELSE <<"a">>

Order(n) == IF n = "n1" THEN profiles_order ELSE <<>>

NodeHost(n) == IF n = "n1" THEN node_hostname ELSE "h2"

Err(e) == Result("Err", e, <<>>)

Unit(n, p, h) == [node |-> n, profile |-> p, hostname |-> h]

\* iter().cloned().collect::<LinkedHashSet<_>>(): first occurrences, in order
RECURSIVE LinkedHashSetOf(_)
LinkedHashSetOf(q) ==
    IF q = <<>> THEN <<>>
    ELSE LET front == LinkedHashSetOf(SubSeq(q, 1, Len(q) - 1))
         IN  IF q[Len(q)] \in Range(front) THEN front
             ELSE Append(front, q[Len(q)])

\* LinkedHashSet::union: self's elements, then other's that self lacks
union(self, other) == self \o SelectSeq(other, LAMBDA x : x \notin Range(self))

RECURSIVE flatten(_)
flatten(rs) == IF rs = <<>> THEN <<>> ELSE rs[1].units \o flatten(Tail(rs))

\* collect::<Result<Vec<_>, _>>()?..flatten(): the first failure, or all units
collect(rs) ==
    LET bad == {i \in 1..Len(rs) : rs[i].kind # "Ok"}
    IN  IF bad = {} THEN Result("Ok", "none", flatten(rs))
        ELSE rs[CHOOSE i \in bad : \A j \in bad : i <= j]

\* hostname_ with the command-line override looked at first
hostname_cli_first(ip, h) == IF h # "None" THEN h ELSE ip

\* let hostname_ = if let Some(_) = ip { ip } else { hostname }
hostname_(ip, h) == IF ip # "None" THEN ip ELSE h

\* DeployData::new: profile user, hostname and socket of the unit
DeployData_new_unit(n, p, h) ==
    IF ~user_set THEN Err("NoProfileUser")
    ELSE LET host == IF h # "None" THEN h ELSE NodeHost(n)
         IN  IF host = "None" THEN Err("NoHost")
             ELSE IF ~sockets_ok THEN Err("InvalidSockent")
             ELSE Result("Ok", "none", <<Unit(n, p, host)>>)

\* resolve of Target { node: Some(n), profile: Some(p), ip }
resolve_profile(n, p, ip, h) ==
    IF p \notin Range(Profiles(n)) THEN Err("ProfileNotFound")
    ELSE DeployData_new_unit(n, p, hostname_(ip, h))

\* the prioritised profile names with profiles_order not put first
prioritized_profile_names_keys_first(n) ==
    union(LinkedHashSetOf(Profiles(n)), LinkedHashSetOf(Order(n)))

\* ordered_profile_names.union(&profile_names)
prioritized_profile_names(n) ==
    union(LinkedHashSetOf(Order(n)), LinkedHashSetOf(Profiles(n)))

\* resolve of Target { node: Some(n), profile: None, ip }
resolve_node(n, ip, h) ==
    LET names == prioritized_profile_names(n)
    IN  collect([i \in 1..Len(names) |-> resolve_profile(n, names[i], ip, h)])

\* Target::resolve(self, r, cs, cf, hostname)
resolve(t, h) ==
    IF t.node # "None"
      THEN IF t.node \notin Range(node_keys) THEN Err("NodeNotFound")
           ELSE IF t.profile # "None"
             THEN resolve_profile(t.node, t.profile, t.ip, h)
             ELSE resolve_node(t.node, t.ip, h)
    ELSE IF t.ip # "None" THEN Err("IpOnFlakeRoot")
    ELSE IF t.profile = "None"
      THEN IF h # "None" THEN Result("Panic", "todo", <<>>)
           ELSE collect([i \in 1..Len(node_keys) |->
                            resolve_node(node_keys[i], t.ip, h)])
    ELSE Err("ProfileWithoutNode")

\* run_deploy: the loop over profiles_order and profiles.keys() concatenated
RECURSIVE profiles_list(_, _, _)
profiles_list(n, names, list) ==
    IF names = <<>> THEN Result("Ok", "none", list)
    ELSE IF names[1] \notin Range(Profiles(n)) THEN Err("ProfileNotFound")
    ELSE profiles_list(n, Tail(names),
                       IF \E i \in 1..Len(list) : list[i].profile = names[1]
                         THEN list
                         ELSE Append(list, Unit(n, names[1], "unset")))

\* run_deploy: to_deploy of one deploy_flake
expand(t) ==
    IF t.node # "None" /\ t.node \notin Range(node_keys)
      THEN Err("NodeNotFound")
    ELSE IF t.node # "None" /\ t.profile # "None"
      THEN IF t.profile \notin Range(Profiles(t.node))
             THEN Err("ProfileNotFound")
             ELSE Result("Ok", "none", <<Unit(t.node, t.profile, "unset")>>)
    ELSE IF t.node # "None"
      THEN profiles_list(t.node, Order(t.node) \o Profiles(t.node), <<>>)
    ELSE IF t.profile = "None"
      THEN collect([i \in 1..Len(node_keys) |->
                       profiles_list(node_keys[i],
                                     Order(node_keys[i]) \o Profiles(node_keys[i]),
                                     <<>>)])
    ELSE Err("ProfileWithoutNode")

InitResolve ==
    /\ IdleRun
    /\ IdleUnit
    /\ IdlePath
    /\ IdleMerge
    /\ IdleText
    /\ IdleAux
    /\ dry_activate = FALSE
    /\ target \in [node : {"None", "n1", "nx"}, profile : {"None", "a", "c"},
                    ip : {"None", "ip"}]
    /\ hostname \in {"None", "cli"}
    /\ profiles_order \in {<<>>} \cup Seqs(ProfileNames, MaxOrderLen)
    /\ profile_keys \in UNION {Perms(S) : S \in SUBSET ProfileNames \ {{}}}
    /\ node_hostname \in {"None", "h1"}
    /\ node_keys \in Perms({"n1", "n2"})
    /\ user_set \in BOOLEAN
    /\ sockets_ok \in BOOLEAN
    /\ resolved = NoResult
    /\ to_deploy = NoResult

ResolveFrame == UNCHANGED <<protovars, pathvars, mergevars, textvars, auxvars, target,
                            hostname,
                            profiles_order, profile_keys, node_hostname,
                            node_keys, user_set, sockets_ok>>

\* target.resolve(&root, &cmd_settings, &flags, hostname)
ResolveTarget ==
    /\ resolved = NoResult
    /\ resolved' = resolve(target, hostname)
    /\ UNCHANGED to_deploy
    /\ ResolveFrame

\* the expansion of the deploy_flake at the head of run_deploy
ExpandTarget ==
    /\ to_deploy = NoResult
    /\ to_deploy' = expand(target)
    /\ UNCHANGED resolved
    /\ ResolveFrame

NextResolve ==
    \/ ResolveTarget
    \/ ExpandTarget

SpecResolve == InitResolve /\ [][NextResolve]_vars

(***************************************************************************)
(* SpecParse: Target::from_str, src/data.rs lines 161-245; parse_flake,     *)
(* src/lib.rs lines 165-228; its call in run, src/cli.rs lines 617-625.     *)
(***************************************************************************)
IdentChars == {"a", "b", "g", "h", "r"}

Bare(text) == [text |-> text, quoted |-> FALSE]

Quoted(text) == [text |-> text, quoted |-> TRUE]

\* the components a path is written from
Components == {Bare(<<"a">>), Bare(<<"b">>), Quoted(<<"a">>),
               Quoted(<<"a", ".", "b">>)}

Repos == {<<"r">>, <<"g", "@", "r">>}

Hosts == {None, <<"h">>}

WrittenAs(c) == IF c.quoted THEN <<"\"">> \o c.text \o <<"\"">> ELSE c.text

RECURSIVE Dotted(_)
Dotted(cs) ==
    IF cs = <<>> THEN <<>>
    ELSE IF Len(cs) = 1 THEN WrittenAs(cs[1])
    ELSE WrittenAs(cs[1]) \o <<".">> \o Dotted(Tail(cs))

\* the text repo[#path[@host]]
Descriptor(w) ==
    w.repo \o (IF w.hash
                 THEN <<"#">> \o Dotted(w.path)
                        \o (IF w.host # None THEN <<"@">> \o w.host ELSE <<>>)
                 ELSE <<>>)

Token(kind, text) == [kind |-> kind, text |-> text]

RECURSIVE ident_len(_)
ident_len(str) ==
    IF str = <<>> \/ str[1] \notin IdentChars THEN 0
    ELSE 1 + ident_len(Tail(str))

\* the tokens of rnix: identifiers, dots and strings
RECURSIVE tokenize(_)
tokenize(str) ==
    IF str = <<>> THEN <<>>
    ELSE IF str[1] = "." THEN <<Token("TOKEN_DOT", <<".">>)>> \o tokenize(Tail(str))
    ELSE IF str[1] = "\""
      THEN LET close == find(Tail(str), "\"")
           IN  IF close = -1 THEN <<Token("TOKEN_ERROR", str)>>
               ELSE <<Token("STRING", slice(Tail(str), 0, close))>>
                       \o tokenize(SubSeq(str, close + 3, Len(str)))
    ELSE IF str[1] \in IdentChars
      THEN <<Token("TOKEN_IDENT", SubSeq(str, 1, ident_len(str)))>>
              \o tokenize(SubSeq(str, ident_len(str) + 1, Len(str)))
    ELSE <<Token("TOKEN_ERROR", <<str[1]>>)>> \o tokenize(Tail(str))

IsPath(toks) ==
    /\ Len(toks) % 2 = 1
    /\ \A i \in 1..Len(toks) :
          IF i % 2 = 1 THEN toks[i].kind \in {"TOKEN_IDENT", "STRING"}
                       ELSE toks[i].kind = "TOKEN_DOT"

\* the node of an identifier or of a string (text: its content token)
NodeOf(t) ==
    IF t.kind = "TOKEN_IDENT" THEN Token("NODE_IDENT", t.text)
                              ELSE Token("NODE_STRING", t.text)

\* rnix::parse(..).root().node().first_child() and its children_with_tokens()
rnix_parse(str) ==
    LET toks == tokenize(str)
    IN  IF toks = <<>> THEN [some |-> FALSE, children |-> <<>>]
        ELSE [some |-> TRUE, children |->
                IF ~IsPath(toks) THEN <<Token("NODE_ERROR", <<>>)>>
                ELSE IF Len(toks) = 1
                  THEN IF toks[1].kind = "TOKEN_IDENT" THEN <<toks[1]>>
                       ELSE <<Token("TOKEN_STRING_START", <<"\"">>),
                              Token("TOKEN_STRING_CONTENT", toks[1].text),
                              Token("TOKEN_STRING_END", <<"\"">>)>>
                ELSE IF Len(toks) = 3
                  THEN <<NodeOf(toks[1]), toks[2], NodeOf(toks[3])>>
                ELSE <<Token("NODE_SELECT", <<>>), toks[Len(toks) - 1],
                       NodeOf(toks[Len(toks)])>>]

\* for entry in first_child.children_with_tokens() { .. }
RECURSIVE entries_loop(_, _, _, _)
entries_loop(es, node, profile, node_over) ==
    IF es = <<>> THEN [err |-> "none", node |-> node, profile |-> profile]
    ELSE IF es[1].kind = "TOKEN_DOT" /\ ~node_over
      THEN entries_loop(Tail(es), node, None, TRUE)
    ELSE IF es[1].kind = "TOKEN_DOT"
      THEN [err |-> "PathTooLong", node |-> None, profile |-> None]
    ELSE IF es[1].kind \in {"NODE_IDENT", "TOKEN_IDENT", "NODE_STRING"}
      THEN IF ~node_over
             THEN entries_loop(Tail(es), es[1].text, profile, node_over)
             ELSE entries_loop(Tail(es), node, es[1].text, node_over)
    ELSE [err |-> "Unrecognized", node |-> None, profile |-> None]

\* the node and profile of the text of an attribute path
parse_path(repo, text, ip) ==
    LET ast == rnix_parse(text)
        r   == entries_loop(ast.children, None, None, FALSE)
    IN  IF ~ast.some THEN Parsed("Ok", "none", repo, None, None, ip)
        ELSE IF r.err # "none" THEN Parsed("Err", r.err, <<>>, None, None, None)
        ELSE Parsed("Ok", "none", repo, r.node, r.profile, ip)

\* impl FromStr for Target
from_str(str) ==
    LET i    == find(str, "#")
        full == slice(str, i + 1, Len(str))
        j    == find(full, "@")
    IN  IF i = -1 THEN Parsed("Ok", "none", str, None, None, None)
        ELSE IF j = -1 THEN parse_path(slice(str, 0, i), full, None)
        ELSE parse_path(slice(str, 0, i), slice(full, 0, j),
                        slice(full, j + 1, Len(full)))

\* parse_flake(flake)
parse_flake(flake) ==
    LET i == find(flake, "#")
    IN  IF i = -1 THEN Parsed("Ok", "none", flake, None, None, None)
        ELSE parse_path(slice(flake, 0, i), slice(flake, i + 1, Len(flake)), None)

InitParse ==
    /\ IdleRun
    /\ IdleUnit
    /\ IdlePath
    /\ IdleMerge
    /\ IdleResolve
    /\ IdleCommand
    /\ IdleAux
    /\ dry_activate = FALSE
    /\ written \in [repo : Repos, hash : BOOLEAN,
                     path : {<<>>} \cup Seqs(Components, MaxDepth), host : Hosts]
    /\ ~written.hash => (written.path = <<>> /\ written.host = None)
    /\ descriptor = Descriptor(written)
    /\ parsed = NotParsed
    /\ deploy_flake = NotParsed
    /\ run_ret = "none"

ParseFrame == UNCHANGED <<protovars, pathvars, mergevars, resvars, cmdvars, auxvars,
                          descriptor, written>>

\* descriptor.parse::<Target>()
ParseTarget ==
    /\ parsed = NotParsed
    /\ parsed' = from_str(descriptor)
    /\ UNCHANGED <<deploy_flake, run_ret>>
    /\ ParseFrame

\* run: parse_flake of the target, then run_deploy unless it failed; the
\* descriptors of this revision have no @host
Run ==
    /\ run_ret = "none"
    /\ written.host = None
    /\ deploy_flake' = parse_flake(descriptor)
    /\ run_ret' = IF deploy_flake'.kind = "Err" THEN "Err(ParseFlake)"
                                               ELSE "run_deploy"
    /\ UNCHANGED parsed
    /\ ParseFrame

NextParse ==
    \/ ParseTarget
    \/ Run

SpecParse == InitParse /\ [][NextParse]_vars

(***************************************************************************)
(* SpecCommand: build_activate_command (src/deploy.rs 27-65),               *)
(* build_wait_command (106-127), build_revoke_command (158-176) and the     *)
(* confirm_command of confirm_profile (222-227).  A piece of a command      *)
(* line has a form and the values written in it:                            *)
(*   text    the value as it is            bin    {value}/activate-rs       *)
(*   quoted  '{value}'                     lock   make_lock_path(t, c)      *)
(***************************************************************************)
Piece(form, value) == [form |-> form, value |-> value]

Text(str) == Piece("text", <<str>>)

\* format!("{}/activate-rs", data.closure), --debug-logs, --log-dir {}
activate_rs(d) ==
    <<Piece("bin", <<d.closure>>)>>
       \o (IF d.debug_logs THEN <<Text("--debug-logs")>> ELSE <<>>)
       \o (IF d.log_dir # "None" THEN <<Text("--log-dir"), Text(d.log_dir)>>
                                 ELSE <<>>)

\* format!("{} {}", sudo_cmd, command) when sudo is Some
with_sudo(d, command) ==
    IF d.sudo # "None" THEN <<Text(d.sudo)>> \o command ELSE command

\* build_activate_command passing --magic-rollback whatever the setting
build_activate_command_always_magic(d) ==
    with_sudo(d,
       activate_rs(d)
          \o <<Text("activate"), Piece("quoted", <<d.closure>>),
               Piece("quoted", <<d.profile_path>>), Text("--temp-path"),
               Piece("quoted", <<d.temp_path>>)>>
          \o <<Text("--confirm-timeout"), Text(d.confirm_timeout)>>
          \o <<Text("--magic-rollback")>>
          \o (IF d.auto_rollback THEN <<Text("--auto-rollback")>> ELSE <<>>)
          \o (IF d.dry_activate THEN <<Text("--dry-activate")>> ELSE <<>>))

build_activate_command(d) ==
    with_sudo(d,
       activate_rs(d)
          \o <<Text("activate"), Piece("quoted", <<d.closure>>),
               Piece("quoted", <<d.profile_path>>), Text("--temp-path"),
               Piece("quoted", <<d.temp_path>>)>>
          \o <<Text("--confirm-timeout"), Text(d.confirm_timeout)>>
          \o (IF d.magic_rollback THEN <<Text("--magic-rollback")>> ELSE <<>>)
          \o (IF d.auto_rollback THEN <<Text("--auto-rollback")>> ELSE <<>>)
          \o (IF d.dry_activate THEN <<Text("--dry-activate")>> ELSE <<>>))

build_wait_command(d) ==
    with_sudo(d,
       activate_rs(d)
          \o <<Text("wait"), Piece("quoted", <<d.closure>>), Text("--temp-path"),
               Piece("quoted", <<d.temp_path>>)>>)

build_revoke_command(d) ==
    with_sudo(d,
       activate_rs(d) \o <<Text("revoke"), Piece("quoted", <<d.profile_path>>)>>)

\* the confirm_command without the sudo prefix
build_confirm_command_no_sudo(d) ==
    <<Text("rm"), Piece("lock", <<d.temp_path, d.closure>>)>>

\* confirm_profile: format!("rm {}", lock_path), with the sudo prefix
build_confirm_command(d) ==
    with_sudo(d, <<Text("rm"), Piece("lock", <<d.temp_path, d.closure>>)>>)

InitCommand ==
    /\ IdleRun
    /\ IdleUnit
    /\ IdlePath
    /\ IdleMerge
    /\ IdleResolve
    /\ IdleParse
    /\ IdleAux
    /\ dry_activate = FALSE
    /\ data \in [sudo : {"None", "sudo -u u1", "sudo -u u2"},
                  closure : {"/nix/store/c1", "/nix/store/c2"},
                  profile_path : {"/profiles/p1", "/profiles/p2"},
                  temp_path : {"/tmp", "/t2"},
                  confirm_timeout : {"30", "60"},
                  magic_rollback : BOOLEAN, auto_rollback : BOOLEAN,
                  dry_activate : BOOLEAN, debug_logs : BOOLEAN,
                  log_dir : {"None", "/log"}]
    /\ activate_command = <<>>
    /\ wait_command = <<>>
    /\ revoke_command = <<>>
    /\ confirm_command = <<>>

CommandFrame == UNCHANGED <<protovars, pathvars, mergevars, resvars, parsevars, auxvars,
                            data>>

\* deploy_profile: let self_activate_command = build_activate_command(..)
BuildActivate ==
    /\ activate_command = <<>>
    /\ activate_command' = build_activate_command(data)
    /\ UNCHANGED <<wait_command, revoke_command, confirm_command>>
    /\ CommandFrame

\* deploy_profile: let self_wait_command = build_wait_command(..), in the
\* branch of magic rollback
BuildWait ==
    /\ activate_command # <<>>
    /\ wait_command = <<>>
    /\ ~(~data.magic_rollback \/ data.dry_activate)
    /\ wait_command' = build_wait_command(data)
    /\ UNCHANGED <<activate_command, revoke_command, confirm_command>>
    /\ CommandFrame

\* confirm_profile, called by deploy_profile after the wait command
BuildConfirm ==
    /\ wait_command # <<>>
    /\ confirm_command = <<>>
    /\ confirm_command' = build_confirm_command(data)
    /\ UNCHANGED <<activate_command, wait_command, revoke_command>>
    /\ CommandFrame

\* revoke: let self_revoke_command = build_revoke_command(..)
BuildRevoke ==
    /\ revoke_command = <<>>
    /\ revoke_command' = build_revoke_command(data)
    /\ UNCHANGED <<activate_command, wait_command, confirm_command>>
    /\ CommandFrame

NextCommand ==
    \/ BuildActivate
    \/ BuildWait
    \/ BuildConfirm
    \/ BuildRevoke

SpecCommand == InitCommand /\ [][NextCommand]_vars

(***************************************************************************)
(* Properties of run_deploy (checked under SpecDeploy).                    *)
(***************************************************************************)
ActivateFailed(p) ==
    \E k \in 1..Len(calls) : calls[k] = Call("activate", p, "Err")

IsRevoke(c) == c.op = "revoke"

\* the units revoke was invoked for, in the order of the invocations
RevokedUnits ==
    LET R == SelectSeq(calls, IsRevoke) IN [k \in 1..Len(R) |-> R[k].unit]

OptedIn(p) == unwrap_or(merged_auto_rollback(p), TRUE)

\* units 1..k-1 that opted in, in their original order
ExpectedRevocations(k) == SelectSeq([q \in 1..(k - 1) |-> q], OptedIn)

\* C4: if the deployment of a unit failed, run_deploy returns an error, also
\* when every revocation succeeded.
C4_FailedUnitReturnsErr ==
    (rpc = "returned" /\ \E p \in 1..nparts : ActivateFailed(p))
        => rResult = "Err"

\* C5: when unit k failed and rollback-succeeded holds, revoke was invoked
\* exactly for the units 1..k-1 whose merged auto-rollback is true, in their
\* original order, each once, and for no other unit.
C5_RevocationWalk ==
    \A p \in 1..nparts :
        (rpc = "returned" /\ ActivateFailed(p) /\ rollback_succeeded)
            => RevokedUnits = ExpectedRevocations(p)

\* C6: a failed revocation does not stop the later ones: when run_deploy has
\* returned after a failed revoke, every succeeded unit that opted in has
\* been revoked.
C6_RevokeFailureDoesNotStop ==
    (rpc = "returned"
       /\ \E k \in 1..Len(calls) : IsRevoke(calls[k]) /\ calls[k].res = "Err")
        => \A j \in 1..Len(succeeded) :
             OptedIn(succeeded[j])
                => \E k \in 1..Len(calls) :
                     IsRevoke(calls[k]) /\ calls[k].unit = succeeded[j]

\* C7: with dry-activate set no revoke is ever invoked.
C7_DryActivateNeverRevokes ==
    dry_activate => \A k \in 1..Len(calls) : ~IsRevoke(calls[k])

\* C8: units are activated one at a time in order: when the activate of a
\* unit is invoked, every earlier unit's deployment has returned Ok before,
\* no deployment has failed before, and no other activate is still running.
C8_OneAtATimeInOrder ==
    \A k \in 1..Len(calls) :
        (calls[k].op = "activate" /\ calls[k].res = "call")
            => /\ \A q \in 1..(calls[k].unit - 1) :
                    \E j \in 1..(k - 1) : calls[j] = Call("activate", q, "Ok")
               /\ \A j \in 1..(k - 1) :
                    calls[j].op = "activate" => calls[j].res \in {"call", "Ok"}
               /\ \A j \in 1..(k - 1) :
                    calls[j] = Call("activate", calls[j].unit, "call")
                        => \E m \in (j + 1)..(k - 1) :
                             calls[m] = Call("activate", calls[j].unit, "Ok")

\* a run of three units whose second unit failed after the first succeeded
C8_Witness ==
    /\ rpc = "returned"
    /\ nparts = 3
    /\ succeeded = <<1>>
    /\ ActivateFailed(2)

(***************************************************************************)
(* Properties of one unit (checked under SpecUnit).                        *)
(***************************************************************************)
\* activate() got past set-profile and the activation script and reached
\* the magic-rollback branch
WatchdogCase ==
    /\ magic_rollback /\ ~dry_activate /\ ~boot
    /\ {"set_ok", "script_ok"} \subseteq aHist

\* C1: in the watchdog case, an agent that exits without a removal event of
\* the sentinel having reached its watcher has run the rollback sequence and
\* exits non-zero; in particular it never exits 0 unconfirmed.
C1_WatchdogRollsBack ==
    (apc = "exited" /\ WatchdogCase /\ "remove_event" \notin dHist)
        => (AgentExitCode # 0 /\ "deact_called" \in aHist)

\* the timer expired without confirmation and the rollback sequence ran
C1_Witness ==
    /\ apc = "exited"
    /\ WatchdogCase
    /\ "TimesUp" \in aHist
    /\ "deact_done" \in aHist
    /\ "remove_event" \notin dHist

\* C2: a confirmed deployment is never rolled back: when the controller's rm
\* removed the sentinel after wait succeeded and before the agent's timer
\* expired (and the watcher reported no fault), activate exits 0 and the
\* rollback sequence is not run.
C2_ConfirmedNeverRolledBack ==
    (apc = "exited" /\ "rm_in_time" \in dHist /\ "watcher_fault" \notin aHist)
        => (aRet = "Ok" /\ "deact_called" \notin aHist)

\* C3: when activate returns an error after a completed rollback sequence,
\* the profile points at the closure that was current before the invocation
\* and every generation that existed before is still there.
C3_RollbackRestoresPrior ==
    (apc = "exited" /\ aRet # "Ok" /\ "deact_done" \in aHist)
        => /\ priorCur # 0
           /\ ClosureOf(gens, cur) = ClosureOf(priorGens, priorCur)
           /\ \A k \in 1..Len(priorGens) :
                \E j \in 1..Len(gens) : gens[j] = priorGens[k]

\* C9: on the magic-rollback path, when wait succeeded and the activate ssh
\* process exits non-zero afterwards, deploy_profile returns an error.
C9_LateActivateFailureIsErr ==
    (dpc = "done" /\ {"wait_ok", "activate_running"} \subseteq dHist
       /\ apc = "exited" /\ AgentExitCode # 0)
        => dRet = "Err"

\* C10: on the magic-rollback path deploy_profile returns Ok only if wait
\* exited 0, the confirmation exited 0 and activate has exited 0.
C10_OkNeedsAllThree ==
    (dpc = "done" /\ dRet = "Ok" /\ ~SimplePath)
        => /\ wRet = "Ok"
           /\ cRet = "Ok"
           /\ apc = "exited" /\ AgentExitCode = 0

\* the activate process exited non-zero when wait had not succeeded
ActivateFailedFirst ==
    /\ apc = "exited" /\ AgentExitCode # 0
    /\ (wRet # "Ok" \/ "ok_after_activate_failed" \in wHist)

\* C11: if the activate ssh process exits non-zero before wait has succeeded,
\* the confirmation command is never issued for the unit and deploy_profile
\* returns an error.
C11_FailedActivateNeverConfirmed ==
    ActivateFailedFirst
        => /\ "confirm_issued" \notin dHist
           /\ dpc = "done" => dRet = "Err"

\* C12: when deploy_profile has returned, on every path, neither the activate
\* nor the wait ssh process of the unit is still running.
C12_NoSubprocessOutlivesReturn ==
    dpc = "done" => (~Running(apc) /\ ~Running(wpc))

\* C13: whenever wait has returned success, the activate invocation of the
\* current deployment has created the sentinel and reached its watchdog
\* step, in every deployment of a sequence to the same temp_path.
C13_WaitOkMeansCurrentSentinel ==
    (wpc = "exited" /\ wRet = "Ok") => "sentinel_created" \in aHist

\* C14: when the watchdog triggered the rollback (the timer expired without
\* confirmation), the sentinel was deleted as part of the rollback: once
\* activate has exited, no sentinel for the closure remains on the target.
C14_TimeoutRollbackDeletesSentinel ==
    (apc = "exited" /\ "TimesUp" \in aHist) => ~sentinel

(***************************************************************************)
(* Properties of the sentinel path (checked under SpecPath).               *)
(***************************************************************************)
\* the closure with the store prefix stripped
StripStorePrefix(c) == SubSeq(c, Len(StorePrefix) + 1, Len(c))

\* str with everything from its first '-' dropped
BeforeFirstDash(str) ==
    IF Occurrences(str, "-") = {} THEN str
    ELSE SubSeq(str, 1, (CHOOSE i \in Occurrences(str, "-") :
                           \A j \in Occurrences(str, "-") : i <= j) - 1)

LockPathsInUse ==
    {confirm_lock_path, activate_lock_path, wait_lock_path} \ {<<>>}

\* C15: the confirmation command, activate and wait all use the path
\* {temp_path}/deploy-rs-canary-<hash>, <hash> being the closure with the
\* store prefix stripped and everything from the first '-' dropped.
C15_SentinelPathAgreement ==
    \A lock_path \in LockPathsInUse :
        lock_path = temp_path \o CanaryInfix
                      \o BeforeFirstDash(StripStorePrefix(closure))

\* all three have computed the path of a closure whose name holds a '-'
C15_Witness ==
    /\ confirm_lock_path # <<>>
    /\ activate_lock_path # <<>>
    /\ wait_lock_path # <<>>
    /\ Cardinality(Occurrences(closure, "-")) > 1
    /\ Cardinality(Occurrences(temp_path, "-")) > 0

(***************************************************************************)
(* Properties of the agent's activate (checked under SpecAgent).           *)
(***************************************************************************)
\* set-profile or the activation script exited non-zero
LocalExitFailure == aHist \cap {"set_failed", "script_failed"} # {}

RollbackRan == "deact_called" \in aHist

\* what both readings of C16 say about a missing confirmation: the rollback
\* runs whenever magic-rollback is set (and neither boot nor dry-activate),
\* whatever auto-rollback is, and only then
ConfirmationRollback ==
    /\ (apc = "exited" /\ WatchdogCase /\ "remove_event" \notin dHist)
          => RollbackRan
    /\ (~LocalExitFailure /\ {"set_ok", "script_ok"} \subseteq aHist
          /\ ~WatchdogCase)
          => ~RollbackRan

C17_ScriptFailureIsError ==
    (apc = "exited" /\ "script_failed" \in aHist) => aRet = "RunActivate"

\* C18: with dry-activate or boot set, activate never creates the sentinel
\* nor arms the watchdog, and returns success once the activation script
\* has succeeded, whatever magic-rollback is.
C18_NoWatchdogOnDryOrBoot ==
    (dry_activate \/ boot)
        => /\ aHist \cap {"sentinel_created", "armed"} = {}
           /\ apc \notin {"create_dir", "create_file", "arm_watcher",
                           "danger_zone"}
           /\ (apc = "exited" /\ "script_ok" \in aHist) => aRet = "Ok"

\* --boot with --magic-rollback: the script succeeded and activate returned
C18_Witness ==
    /\ boot /\ magic_rollback /\ ~dry_activate
    /\ apc = "exited"
    /\ "script_ok" \in aHist
    /\ aRet = "Ok"

\* C19: with dry-activate set, activate never sets the profile generation,
\* never runs the rollback sequence and never creates the sentinel, on
\* success and on every failure path.
C19_DryActivateChangesNothing ==
    dry_activate
        => /\ gens = priorGens
           /\ cur = priorCur
           /\ ~sentinel
           /\ ~RollbackRan
           /\ apc \notin {"set_profile", "deact_rollback", "deact_list",
                           "deact_delete", "deact_reactivate"}

\* a dry activation with auto-rollback set whose script could not be run
C19_Witness ==
    /\ dry_activate /\ auto_rollback
    /\ priorGens # <<>>
    /\ apc = "exited"
    /\ aRet = "RunActivate"

\* C20: a SIGHUP delivered while the watchdog waits for the confirmation
\* leaves the agent running: the wait ends with the confirmation observed
\* or with the rollback, and activate returns.
C20_SighupIgnored ==
    ("hup_in_danger_zone" \in aHist)
        ~> (apc = "exited" /\ ("removal_observed" \in aHist \/ RollbackRan))

\* after a SIGHUP in the danger zone the timeout rollback took place
C20_Witness ==
    /\ "hup_in_danger_zone" \in aHist
    /\ apc = "exited"
    /\ "TimesUp" \in aHist
    /\ "deact_done" \in aHist

(***************************************************************************)
(* Properties of the settings merge (checked under SpecMerge).             *)
(***************************************************************************)
BothGiven == cmd_settings # "None" /\ profile_settings # "None"

DeclaredValue ==
    IF profile_settings # "None" THEN profile_settings
    ELSE IF node_settings # "None" THEN node_settings
    ELSE top_settings

NoneOfThree(n) ==
    /\ hostname = "None"
    /\ target.ip = "None"
    /\ NodeHost(n) = "None"

\* a target naming one existing unit whose profile user is known
OneUnitTarget ==
    /\ target.node \in Range(node_keys)
    /\ target.profile \in Range(Profiles(target.node))
    /\ user_set

NoHostExactly ==
    /\ resolved.err = "NoHost"
         => \E n \in Range(node_keys) : NoneOfThree(n)
    /\ (resolved # NoResult /\ OneUnitTarget /\ NoneOfThree(target.node))
         => resolved = Err("NoHost")

\* C23 as stated: the hostname of a unit is the command-line override if
\* given, otherwise the @host part of the descriptor if given, otherwise the
\* node's hostname; NoHost if none of the three exists.
C23_CommandLineHostFirst ==
    /\ resolved.kind = "Ok"
         => \A i \in 1..Len(resolved.units) :
               resolved.units[i].hostname =
                  IF hostname # "None" THEN hostname
                  ELSE IF target.ip # "None" THEN target.ip
                  ELSE NodeHost(resolved.units[i].node)
    /\ NoHostExactly

\* C23 amended: the hostname of a unit is the @host part of the descriptor
\* if given, otherwise the command-line override if given, otherwise the
\* node's hostname; a unit with a profile user fails with NoHost if none of
\* the three exists.
C23_DescriptorHostFirst ==
    /\ resolved.kind = "Ok"
         => \A i \in 1..Len(resolved.units) :
               resolved.units[i].hostname =
                  IF target.ip # "None" THEN target.ip
                  ELSE IF hostname # "None" THEN hostname
                  ELSE NodeHost(resolved.units[i].node)
    /\ NoHostExactly

\* a unit resolved with both overrides given carries the descriptor's host
C23_Witness ==
    /\ resolved.kind = "Ok"
    /\ target.ip = "ip"
    /\ hostname = "cli"
    /\ Len(resolved.units) = 1
    /\ resolved.units[1].hostname = "ip"

\* the profile names of a unit list, in its order
Names(units) == [i \in 1..Len(units) |-> units[i].profile]

\* the place of the name x in the list q of names
Place(q, x) == CHOOSE i \in 1..Len(q) : q[i] = x /\ \A j \in 1..(i - 1) : q[j] # x

\* q holds every profile of node n exactly once, those of profiles_order
\* first and in that order
OrderedPlan(n, q) ==
    /\ Range(q) = Range(Profiles(n))
    /\ Len(q) = Cardinality(Range(Profiles(n)))
    /\ \A x \in Range(Order(n)) : \A y \in Range(q) \ Range(Order(n)) :
          Place(q, x) < Place(q, y)
    /\ \A x, y \in Range(Order(n)) :
          Place(Order(n), x) < Place(Order(n), y) => Place(q, x) < Place(q, y)

NodeTarget ==
    /\ target.node \in Range(node_keys)
    /\ target.profile = "None"

Expansion ==
    IF target.node = "None"
      THEN {<<n, p>> : n \in Range(node_keys), p \in ProfileNames}
              \cap {np \in Range(node_keys) \X ProfileNames :
                       np[2] \in Range(Profiles(np[1]))}
    ELSE IF target.profile = "None"
      THEN {<<target.node, p>> : p \in Range(Profiles(target.node))}
    ELSE {<<target.node, target.profile>>}

CompletePlan ==
    /\ {<<resolved.units[i].node, resolved.units[i].profile>> :
           i \in 1..Len(resolved.units)} = Expansion
    /\ Len(resolved.units) = Cardinality(Expansion)

NamedErrors ==
    /\ (target.node = "None" /\ target.ip # "None")
         => resolved = Err("IpOnFlakeRoot")
    /\ (target.node = "None" /\ target.ip = "None" /\ target.profile # "None")
         => resolved = Err("ProfileWithoutNode")
    /\ (target.node # "None" /\ target.node \notin Range(node_keys))
         => resolved = Err("NodeNotFound")
    /\ (target.node \in Range(node_keys) /\ target.profile # "None"
          /\ target.profile \notin Range(Profiles(target.node)))
         => resolved = Err("ProfileNotFound")

\* C26: resolution gives either the complete plan or an error with no
\* units, with IpOnFlakeRoot, ProfileWithoutNode, NodeNotFound and
\* ProfileNotFound for the cases they name.
C26_PlanOrError ==
    resolved # NoResult =>
       /\ resolved.kind \in {"Ok", "Err"}
       /\ resolved.kind = "Ok" => CompletePlan
       /\ resolved.kind = "Err" => resolved.units = <<>>
       /\ NamedErrors

(***************************************************************************)
(* Properties of the descriptor parsers (checked under SpecParse).         *)
(***************************************************************************)
\* C25: a descriptor whose fragment is deeper than node.profile is rejected
\* with PathTooLong, and the run aborts before run_deploy: no unit, no SSH
\* command.
C25_TooDeepIsPathTooLong ==
    Len(written.path) > 2 =>
       /\ parsed # NotParsed => (parsed.kind = "Err" /\ parsed.err = "PathTooLong")
       /\ run_ret # "none" =>
             /\ deploy_flake.kind = "Err"
             /\ deploy_flake.err = "PathTooLong"
             /\ run_ret = "Err(ParseFlake)"

\* the components written as C27 renders them: in quotes exactly when the
\* component contains a dot
Rendered ==
    \A i \in 1..Len(written.path) :
       written.path[i].quoted <=> "." \in Range(written.path[i].text)

\* the tuple the descriptor was rendered from
TupleOf(w) ==
    Parsed("Ok", "none", w.repo,
           IF Len(w.path) >= 1 THEN w.path[1].text ELSE None,
           IF Len(w.path) >= 2 THEN w.path[2].text ELSE None,
           w.host)

\* C27: a tuple {repo, node?, profile?, host?} in which profile and host
\* imply node, rendered as repo#node.profile@host with the components that
\* contain dots in quotes, parses to the same tuple; a descriptor without
\* fragment or with an empty fragment parses to no node, profile and host.
C27_ParseRoundTrip ==
    (Rendered /\ Len(written.path) <= 2
       /\ (written.host # None => written.path # <<>>))
      => /\ parsed # NotParsed => parsed = TupleOf(written)
         /\ (deploy_flake # NotParsed /\ written.host = None)
               => deploy_flake = TupleOf(written)

(***************************************************************************)
(* Properties of the remote command lines (checked under SpecCommand).     *)
(***************************************************************************)
When(cond, pieces) == IF cond THEN pieces ELSE <<>>

\* the sudo prefix when one is set, {closure}/activate-rs, the global flags
CommandHead ==
    When(data.sudo # "None", <<Text(data.sudo)>>)
       \o <<Piece("bin", <<data.closure>>)>>
       \o When(data.debug_logs, <<Text("--debug-logs")>>)
       \o When(data.log_dir # "None", <<Text("--log-dir"), Text(data.log_dir)>>)

\* C28: each builder emits the sudo prefix when one is set,
\* {closure}/activate-rs, --debug-logs and --log-dir D when set, then the
\* subcommand with its closure, profile path and temp path in single
\* quotes; activate then has --confirm-timeout N and --magic-rollback,
\* --auto-rollback, --dry-activate exactly when the setting is true.
C28_CommandFormat ==
    /\ activate_command # <<>> =>
          activate_command =
             CommandHead
                \o <<Text("activate"), Piece("quoted", <<data.closure>>),
                     Piece("quoted", <<data.profile_path>>), Text("--temp-path"),
                     Piece("quoted", <<data.temp_path>>),
                     Text("--confirm-timeout"), Text(data.confirm_timeout)>>
                \o When(data.magic_rollback, <<Text("--magic-rollback")>>)
                \o When(data.auto_rollback, <<Text("--auto-rollback")>>)
                \o When(data.dry_activate, <<Text("--dry-activate")>>)
    /\ wait_command # <<>> =>
          wait_command =
             CommandHead
                \o <<Text("wait"), Piece("quoted", <<data.closure>>),
                     Text("--temp-path"), Piece("quoted", <<data.temp_path>>)>>
    /\ revoke_command # <<>> =>
          revoke_command =
             CommandHead
                \o <<Text("revoke"), Piece("quoted", <<data.profile_path>>)>>

\* the three commands built for a unit with a sudo prefix, both global
\* flags, magic and auto rollback
C28_Witness ==
    /\ data.sudo = "sudo -u u1"
    /\ data.debug_logs /\ data.log_dir = "/log"
    /\ data.magic_rollback /\ data.auto_rollback /\ ~data.dry_activate
    /\ Len(activate_command) = 14
    /\ activate_command[14] = Text("--auto-rollback")
    /\ Len(wait_command) = 9
    /\ Len(revoke_command) = 7

\* the sudo prefix a command line starts with, "None" without one
SudoOf(command) ==
    IF command[1].form = "text" /\ command[1].value[1] # "rm"
      THEN command[1].value[1] ELSE "None"

\* C29: the rm of the sentinel has the sudo prefix of the unit's activate
\* command, and none when that has none.
C29_ConfirmUnderSameSudo ==
    (activate_command # <<>> /\ confirm_command # <<>>)
       => /\ SudoOf(confirm_command) = SudoOf(activate_command)
          /\ SudoOf(confirm_command) = data.sudo

\* a unit with a sudo prefix confirmed
C29_Witness ==
    /\ activate_command # <<>>
    /\ confirm_command # <<>>
    /\ SudoOf(activate_command) = "sudo -u u2"
    /\ confirm_command[1] = Text("sudo -u u2")
    /\ confirm_command[2] = Text("rm")

(***************************************************************************)
(* The confirmation within deploy_profile (checked under SpecUnit).        *)
(***************************************************************************)
\* a step in which the controller issues the confirmation command
ConfirmIssued ==
    \/ dpc = "confirm" /\ dpc' # "confirm"
    \/ cRet' # cRet /\ cRet' # "none"
    \/ "confirm_issued" \notin dHist /\ "confirm_issued" \in dHist'

\* C30: the controller issues the rm of the sentinel only after the ssh
\* wait command of the unit has exited 0: never before wait returns, after
\* a failed or timed-out wait, or on the path without magic rollback.
C30_ConfirmOnlyAfterWaitOk ==
    [][ConfirmIssued =>
          /\ wpc = "exited"
          /\ wRet = "Ok"
          /\ "wait_ok" \in dHist
          /\ magic_rollback /\ ~dry_activate]_vars

\* the confirmation issued after a wait that exited 0
C30_Witness ==
    /\ "confirm_issued" \in dHist
    /\ "wait_ok" \in dHist
    /\ wpc = "exited"
    /\ wRet = "Ok"
    /\ cRet = "Ok"

(***************************************************************************)
(* The wait subcommand and the sentinel (checked under SpecUnit).          *)
(***************************************************************************)
\* a step in which wait returns
WaitReturns == wpc # "exited" /\ wpc' = "exited"

DeactivateErrors == {"Rollback", "ListGen", "DeleteGen", "Reactivate"}

\* deactivate() fails in this step with the error of `step` alone, and the
\* profile is left as the step found it
DeactFails(step) ==
    /\ apc' = "exited"
    /\ aRet' = "Deactivate"
    /\ aHist' \cap DeactivateErrors = {step}
    /\ gens' = gens /\ cur' = cur

\* C32: the rollback sequence performs, in this order, the profile rollback,
\* the listing of generations, the deletion of the generation named by the
\* last listed line and the re-activation; a step that fails returns its
\* error and no later step is executed.
C32_RollbackSequence ==
    [][/\ (apc = "deact_rollback" /\ apc' # apc) =>
             \/ apc' = "deact_list" /\ cur' < cur /\ gens' = gens
             \/ DeactFails("Rollback")
       /\ (apc = "deact_list" /\ apc' # apc) =>
             \/ /\ apc' = "deact_delete"
                /\ aLastGen' = gens[Len(gens)].id
                /\ gens' = gens /\ cur' = cur
             \/ DeactFails("ListGen")
       /\ (apc = "deact_delete" /\ apc' # apc) =>
             \/ /\ apc' = "deact_reactivate"
                /\ {gens'[i].id : i \in 1..Len(gens')}
                      = {gens[i].id : i \in 1..Len(gens)} \ {aLastGen}
                /\ cur' = cur
             \/ DeactFails("DeleteGen")
       /\ (apc = "deact_reactivate" /\ apc' # apc) =>
             \/ /\ apc' = "exited" /\ aRet' = aErr
                /\ aHist' \cap DeactivateErrors = {}
                /\ gens' = gens /\ cur' = cur
             \/ DeactFails("Reactivate")
       /\ (apc' = "deact_list" /\ apc' # apc) => apc = "deact_rollback"
       /\ (apc' = "deact_delete" /\ apc' # apc) => apc = "deact_list"
       /\ (apc' = "deact_reactivate" /\ apc' # apc) => apc = "deact_delete"]_vars

\* the whole sequence performed: the profile is rolled back and the cause
\* of the rollback is returned
C32_Witness ==
    /\ apc = "exited"
    /\ "deact_done" \in aHist
    /\ aRet = aErr
    /\ cur < Len(priorGens) + 1

(***************************************************************************)
(* The path of deploy_profile without magic rollback (under SpecUnit).     *)
(***************************************************************************)
\* C33: with magic-rollback off or dry-activate on the controller runs only
\* the activate command of the unit and decides the unit by its exit code
\* alone: no wait command and no confirmation rm is issued.
C33_SimplePathActivateOnly ==
    (~magic_rollback \/ dry_activate) =>
       /\ wpc = "not_started"
       /\ tpc = "not_started"
       /\ dpc \notin {"select", "confirm", "recv_activated"}
       /\ cRet = "none"
       /\ "confirm_issued" \notin dHist
       /\ (dpc = "done" /\ apc = "exited") =>
             dRet = IF AgentExitCode = 0 THEN "Ok" ELSE "Err"
       /\ (dpc = "done" /\ dRet = "Ok") => (apc = "exited" /\ AgentExitCode = 0)

\* a unit deployed without magic rollback whose activate exited non-zero
C33_Witness ==
    /\ ~magic_rollback /\ ~dry_activate
    /\ dpc = "done"
    /\ apc = "exited"
    /\ AgentExitCode # 0
    /\ dRet = "Err"
    /\ wpc = "not_started"

(***************************************************************************)
(* The filters of the two watchers (checked under SpecWatch).              *)
(***************************************************************************)
\* a step in which a watcher receives an event that is neither the removal
\* of the sentinel (activate) nor its creation (wait)
OtherEventStep ==
    \/ "other_event" \notin aHist /\ "other_event" \in aHist'
    \/ "other_event" \notin wHist /\ "other_event" \in wHist'

\* C34: in activate only the removal of the sentinel leads to success, in
\* wait only the creation of the sentinel (or its existence at the check);
\* an event of another kind or for another path is ignored: it changes
\* neither the outcome nor the pending timeout.
C34_WatcherFiltering ==
    [][/\ (aRet' = "Ok" /\ aRet # "Ok") =>
             ("remove_event" \in dHist /\ achan = <<"Ok">>)
       /\ (wRet' = "Ok" /\ wRet # "Ok") =>
             ("sentinel_created" \in aHist /\ (sentinel \/ wchan = <<"Ok">>))
       /\ OtherEventStep =>
             /\ achan' = achan /\ wchan' = wchan
             /\ apc' = apc /\ wpc' = wpc
             /\ aRet' = aRet /\ wRet' = wRet
             /\ sentinel' = sentinel]_vars

\* both watchers received other events; activate then timed out and wait
\* succeeded on the creation of the sentinel
C34_Witness ==
    /\ "other_event" \in aHist
    /\ "other_event" \in wHist
    /\ "TimesUp" \in aHist
    /\ "created_after_check" \in aHist
    /\ wpc = "exited"
    /\ wRet = "Ok"

(***************************************************************************)
(* The order of the agent's steps (checked under SpecAgent).               *)
(***************************************************************************)
\* C35: the sentinel is created only after set-profile and the activation
\* script have both exited 0 in this invocation of activate; a locally failed
\* activation never creates it, and a confirmation or a rollback for a
\* missing confirmation only comes after its creation.
C35_SentinelAfterLocalSuccess ==
    /\ "sentinel_created" \in aHist =>
          /\ {"set_ok", "script_ok"} \subseteq aHist
          /\ aHist \cap {"set_failed", "script_failed"} = {}
          /\ ~dry_activate
    /\ sentinel => "sentinel_created" \in aHist
    /\ apc \in {"arm_watcher", "danger_zone"} => "sentinel_created" \in aHist
    /\ aHist \cap {"removal_observed", "armed", "TimesUp", "Watch"} # {}
          => "sentinel_created" \in aHist
    /\ apc \in {"set_profile", "run_script"} => "sentinel_created" \notin aHist

\* an activation that succeeded locally, created the sentinel and saw it
\* removed
C35_Witness ==
    /\ {"set_ok", "script_ok", "sentinel_created", "removal_observed"}
          \subseteq aHist
    /\ apc = "exited"
    /\ aRet = "Ok"

(***************************************************************************)
(* The two loops of run_deploy (checked under SpecDeploy).                 *)
(***************************************************************************)
CallsOf(ops) == {k \in 1..Len(calls) : calls[k].op \in ops}

\* C37: every unit of the plan is pushed, with success, before any unit is
\* activated, no push follows an activation or a revocation, and after a
\* failed push run_deploy returns the error with no activate and no revoke
\* called.
C37_PushAllBeforeActivate ==
    /\ \A k \in CallsOf({"activate", "revoke"}) :
          /\ k > nparts
          /\ \A p \in 1..nparts : calls[p] = Call("push", p, "Ok")
    /\ \A k \in CallsOf({"push"}) : k <= nparts /\ calls[k].unit = k
    /\ \A k \in CallsOf({"push"}) :
          calls[k].res = "Err" =>
             /\ k = Len(calls)
             /\ CallsOf({"activate", "revoke"}) = {}
             /\ rpc = "returned"
             /\ rResult = "Err"

\* a plan of several units, all pushed, the first of them being activated
C37_Witness ==
    /\ nparts >= 2
    /\ Len(calls) > nparts
    /\ calls[nparts + 1] = Call("activate", 1, "call")

\* a plan whose second push failed: run_deploy has returned the error
C37_WitnessPushFailed ==
    /\ nparts >= 2
    /\ calls = <<Call("push", 1, "Ok"), Call("push", 2, "Err")>>
    /\ rResult = "Err"

(***************************************************************************)
(* The error activate returns when its rollback fails (under SpecAgent).   *)
(***************************************************************************)
\* what activate was rolling back for: ActivateError::SetProfile,
\* RunActivate or ActivationConfirmation
RollbackCauses == {"SetProfile", "RunActivate", "ActivationConfirmation"}

\* C38: when a step of the rollback sequence fails while activate handles a
\* failed set-profile, a failed activation script or a missing confirmation,
\* activate returns the Deactivate error and not the cause of the rollback.
C38_RollbackErrorMasksCause ==
    (apc = "exited" /\ aHist \cap DeactivateErrors # {}) =>
       /\ aErr \in RollbackCauses
       /\ aRet = "Deactivate"
       /\ aRet # aErr
       /\ AgentExitCode = 1

\* no confirmation came, and the rollback for it failed
C38_Witness ==
    /\ apc = "exited"
    /\ aErr = "ActivationConfirmation"
    /\ "TimesUp" \in aHist
    /\ aHist \cap DeactivateErrors # {}
    /\ aRet = "Deactivate"

(***************************************************************************)
(* SpecSsh: SshMultiplexer, src/ssh.rs lines 156-210.  Tasks that share    *)
(* one multiplexer call get_or_create and close_all; both take the tokio   *)
(* Mutex around `masters` and hold it until they return.                   *)
(***************************************************************************)
SshHosts == {<<"h">>, <<"g">>}
SshUsers == {None, <<>>, <<"u">>}

\* the (hostname, ssh_user) of the units of a run: one host reached as
\* several users, and a second host
SshTargets == {x \in SshHosts \X SshUsers : x[1] = <<"h">> \/ x[2] = None}

\* format!("{}@{}", ssh_user.unwrap_or(""), hostname)
master_key(h, u) == (IF u = None THEN <<>> ELSE u) \o <<"@">> \o h

KeyOf(t) == master_key(sarg[t].hostname, sarg[t].ssh_user)

\* masters.get(&key)
masters_get(m, key) == {e \in m : e.key = key}

\* masters.insert(key, master): the entry of the key is replaced
masters_insert(m, key, id) == {e \in m : e.key # key} \cup {[key |-> key, id |-> id]}

\* self.masters.lock().await is granted to any task while no task holds it
lock_granted_always(holder) == TRUE

\* self.masters.lock().await is granted when no task holds the Mutex
lock_granted(holder) == holder = 0

\* Result<Arc<SshControlMaster>, SshError>; id 0: no master
SshOk(id) == [kind |-> "Ok", id |-> id, err |-> "none"]
SshErr(e) == [kind |-> "Err", id |-> 0, err |-> e]

InitSsh ==
    /\ IdleRun
    /\ IdleUnit
    /\ IdlePath
    /\ IdleMerge
    /\ IdleResolve
    /\ IdleText
    /\ dry_activate = FALSE
    /\ IdleSsh
    /\ IdleTime

SshFrame == UNCHANGED <<protovars, pathvars, mergevars, resvars, textvars, timevars>>

\* the MutexGuard is dropped as the call returns `r`
SshReturn(t, r) ==
    /\ spc' = [spc EXCEPT ![t] = "idle"]
    /\ sret' = [sret EXCEPT ![t] = r]
    /\ mutex' = 0

\* a task calls get_or_create(hostname, ssh_user, ssh_opts)
GetOrCreate(t) ==
    /\ spc[t] = "idle"
    /\ ncalls < MaxSshCalls
    /\ ncalls' = ncalls + 1
    /\ \E x \in SshTargets :
          sarg' = [sarg EXCEPT ![t] = [op |-> "get_or_create", hostname |-> x[1],
                                       ssh_user |-> x[2]]]
    /\ spc' = [spc EXCEPT ![t] = "lock"]
    /\ sret' = [sret EXCEPT ![t] = SshNone]
    /\ UNCHANGED <<masters, mutex, started, nstarted>>
    /\ SshFrame

\* a task calls close_all()
CloseAll(t) ==
    /\ spc[t] = "idle"
    /\ ncalls < MaxSshCalls
    /\ ncalls' = ncalls + 1
    /\ sarg' = [sarg EXCEPT ![t] = [op |-> "close_all", hostname |-> <<>>,
                                    ssh_user |-> None]]
    /\ spc' = [spc EXCEPT ![t] = "lock"]
    /\ sret' = [sret EXCEPT ![t] = SshNone]
    /\ UNCHANGED <<masters, mutex, started, nstarted>>
    /\ SshFrame

\* let mut masters = self.masters.lock().await;
SshLock(t) ==
    /\ spc[t] = "lock"
    /\ lock_granted(mutex)
    /\ mutex' = t
    /\ spc' = [spc EXCEPT ![t] = IF sarg[t].op = "close_all" THEN "drain"
                                                              ELSE "lookup"]
    /\ UNCHANGED <<masters, sarg, sret, started, nstarted, ncalls>>
    /\ SshFrame

\* if let Some(master) = masters.get(&key) { return Ok(Arc::clone(master)); }
SshLookup(t) ==
    /\ spc[t] = "lookup"
    /\ IF masters_get(masters, KeyOf(t)) # {}
         THEN \E e \in masters_get(masters, KeyOf(t)) : SshReturn(t, SshOk(e.id))
         ELSE /\ spc' = [spc EXCEPT ![t] = "start"]
              /\ UNCHANGED <<sret, mutex>>
    /\ UNCHANGED <<masters, sarg, started, nstarted, ncalls>>
    /\ SshFrame

\* master.start().await?: create_dir_all, then `ssh -o ControlMaster=yes ..`
SshStart(t) ==
    /\ spc[t] = "start"
    /\ \E out \in {"Ok", "CreateControlDir", "SpawnMaster", "MasterFailed"} :
         IF out = "Ok"
           THEN /\ nstarted' = nstarted + 1
                /\ started' = started \cup {[key |-> KeyOf(t), id |-> nstarted + 1]}
                /\ spc' = [spc EXCEPT ![t] = "insert"]
                /\ UNCHANGED <<sret, mutex>>
           ELSE /\ SshReturn(t, SshErr(out))
                /\ UNCHANGED <<started, nstarted>>
    /\ UNCHANGED <<masters, sarg, ncalls>>
    /\ SshFrame

\* masters.insert(key, Arc::clone(&master)); Ok(master)
SshInsert(t) ==
    /\ spc[t] = "insert"
    /\ masters' = masters_insert(masters, KeyOf(t), nstarted)
    /\ SshReturn(t, SshOk(nstarted))
    /\ UNCHANGED <<sarg, started, nstarted, ncalls>>
    /\ SshFrame

\* for (key, master) in masters.drain() { master.stop().await .. }
SshDrain(t) ==
    /\ spc[t] = "drain"
    /\ masters' = {}
    /\ started' = {}
    /\ SshReturn(t, SshClosed)
    /\ UNCHANGED <<sarg, nstarted, ncalls>>
    /\ SshFrame

NextSsh ==
    \E t \in Tasks :
       \/ GetOrCreate(t)
       \/ CloseAll(t)
       \/ SshLock(t)
       \/ SshLookup(t)
       \/ SshStart(t)
       \/ SshInsert(t)
       \/ SshDrain(t)

SpecSsh == InitSsh /\ [][NextSsh]_vars


\* the masters started for `key` since the last close_all
StartedFor(key) == {e \in started : e.key = key}

\* C39: between two runs of close_all at most one control master is started
\* for a key and the cache holds at most that one; a call that finds its key
\* cached returns the cached master and starts nothing; a failed start
\* leaves the cache as it was; when close_all returns the cache is empty.
C39_OneMasterPerKey ==
    [][/\ \A e \in started' : StartedFor(e.key)' = {e}
       /\ masters' \subseteq started'
       /\ \A t \in Tasks :
            /\ (spc[t] = "lookup" /\ spc'[t] # "lookup"
                   /\ masters_get(masters, KeyOf(t)) # {}) =>
                  /\ sret'[t].kind = "Ok"
                  /\ masters_get(masters, KeyOf(t))
                        = {[key |-> KeyOf(t), id |-> sret'[t].id]}
                  /\ nstarted' = nstarted
                  /\ masters' = masters
            /\ (spc[t] = "start" /\ spc'[t] = "idle") =>
                  /\ sret'[t].kind = "Err"
                  /\ masters' = masters
                  /\ nstarted' = nstarted
            /\ (spc[t] = "drain" /\ spc'[t] = "idle") => masters' = {}]_vars

\* two tasks asked for the same key while neither had it: one master was
\* started and both hold it
C39_Witness ==
    /\ sarg[1].op = "get_or_create"
    /\ sarg[2].op = "get_or_create"
    /\ KeyOf(1) = KeyOf(2)
    /\ ncalls = 2
    /\ sret[1].kind = "Ok"
    /\ sret[2] = sret[1]
    /\ nstarted = 1
    /\ masters = {[key |-> KeyOf(1), id |-> 1]}


(***************************************************************************)
(* SpecTimer: the timers of the activate binary, src/bin/activate.rs.      *)
(* danger_zone (264-276) waits for an event under                          *)
(* timeout(Duration::from_secs(confirm_timeout), ..); activate reaches it  *)
(* through activation_confirmation (324) with --confirm-timeout, wait      *)
(* (376) with activation_timeout.unwrap_or(240).  Time is counted in       *)
(* seconds from the moment an invocation enters danger_zone; it passes     *)
(* while an invocation is blocked, and a timer fires when its duration has *)
(* passed.                                                                 *)
(***************************************************************************)
DefaultActivationTimeout == 240

\* activation_timeout.unwrap_or(240)
wait_timeout(opt) == IF opt = <<>> THEN DefaultActivationTimeout ELSE opt[1]

\* a timeout that never elapses
timer_elapsed_never(duration, t) == FALSE

\* tokio::time::timeout: Err(Elapsed) once the duration has passed
timer_elapsed(duration, t) == t >= duration

\* the invocation is in a step that takes time: danger_zone, or the rollback
\* sequence that follows it
Blocked(i) == tmpc[i] \in {"danger_zone", "rollback"} /\ elapsed[i] >= 0

InitTimer ==
    /\ IdleRun
    /\ IdleUnit
    /\ IdlePath
    /\ IdleMerge
    /\ IdleResolve
    /\ IdleText
    /\ dry_activate = FALSE
    /\ IdleSsh
    /\ confirm_timeout \in 0..MaxTimeout
    /\ activation_timeout \in {<<>>} \cup {<<n>> : n \in 0..MaxTimeout}
    /\ lock_file = FALSE
    /\ tmpc = [i \in Invocations |->
                 IF i = "activate" THEN "commands" ELSE "arm_watcher"]
    /\ elapsed = [i \in Invocations |-> -1]
    /\ tmdead = [i \in Invocations |-> -1]
    /\ tmchan = [i \in Invocations |-> <<>>]
    /\ tmret = [i \in Invocations |-> "none"]

TimerFrame == UNCHANGED <<protovars, pathvars, mergevars, resvars, textvars,
                          sshvars, confirm_timeout, activation_timeout>>

\* the invocation returns `r` and its process exits
TExit(i, r) ==
    /\ tmpc' = [tmpc EXCEPT ![i] = "exited"]
    /\ tmret' = [tmret EXCEPT ![i] = r]

\* activate calls deactivate(): the rollback sequence, whose commands end
TEnterRollback ==
    /\ tmpc' = [tmpc EXCEPT !["activate"] = "rollback"]
    /\ tmdead' = [tmdead EXCEPT !["activate"] = elapsed["activate"] + MaxCommandSecs]
    /\ UNCHANGED tmret

\* danger_zone(events, secs) is entered: the timeout starts
TEnterDangerZone(i, secs) ==
    /\ tmpc' = [tmpc EXCEPT ![i] = "danger_zone"]
    /\ elapsed' = [elapsed EXCEPT ![i] = 0]
    /\ tmdead' = [tmdead EXCEPT ![i] = secs]
    /\ UNCHANGED tmret

\* activate: nix-env --set and the activation script, and what follows from
\* their exit codes and the options
TCommands ==
    /\ tmpc["activate"] = "commands"
    /\ \E out \in {"confirm", "done", "rollback", "failed"} :
         CASE out = "confirm" ->
                /\ tmpc' = [tmpc EXCEPT !["activate"] = "create_lock"]
                /\ UNCHANGED <<tmdead, tmret>>
           [] out = "done" -> TExit("activate", "Ok") /\ UNCHANGED tmdead
           [] out = "rollback" -> TEnterRollback
           [] out = "failed" -> TExit("activate", "Err") /\ UNCHANGED tmdead
    /\ UNCHANGED <<lock_file, elapsed, tmchan>>
    /\ TimerFrame

\* activation_confirmation: the lock file is created and watched, then
\* danger_zone(done, confirm_timeout); the watcher of wait sees the creation
TCreateLock ==
    /\ tmpc["activate"] = "create_lock"
    /\ \E ok \in BOOLEAN :
         IF ok
           THEN /\ lock_file' = TRUE
                /\ tmchan' = [tmchan EXCEPT !["wait"] =
                                IF tmpc["wait"] \in {"check", "danger_zone"}
                                  THEN wait_callback_create(@) ELSE @]
                /\ TEnterDangerZone("activate", confirm_timeout)
           ELSE /\ TEnterRollback
                /\ UNCHANGED <<lock_file, tmchan, elapsed>>
    /\ TimerFrame

\* the controller confirms: the lock file is removed
TRemoveLock ==
    /\ lock_file
    /\ lock_file' = FALSE
    /\ tmchan' = [tmchan EXCEPT !["activate"] =
                    IF tmpc["activate"] = "danger_zone"
                      THEN activate_callback_remove(@) ELSE @]
    /\ UNCHANGED <<tmpc, elapsed, tmdead, tmret>>
    /\ TimerFrame

\* danger_zone resolves: an event was sent, or the timeout has elapsed
TDangerZone(i) ==
    /\ tmpc[i] = "danger_zone"
    /\ tmchan[i] # <<>> \/ timer_elapsed(tmdead[i], elapsed[i])
    /\ tmchan' = [tmchan EXCEPT ![i] = <<>>]
    /\ IF danger_zone(Recv(tmchan[i])) = "Ok" \/ i = "wait"
         THEN TExit(i, danger_zone(Recv(tmchan[i]))) /\ UNCHANGED tmdead
         ELSE TEnterRollback
    /\ UNCHANGED <<lock_file, elapsed>>
    /\ TimerFrame

\* deactivate() returns, and activate with it
TRollback ==
    /\ tmpc["activate"] = "rollback"
    /\ TExit("activate", "Err")
    /\ UNCHANGED <<lock_file, elapsed, tmdead, tmchan>>
    /\ TimerFrame

\* wait: recommended_watcher(..)?; watcher.watch(&temp_path, ..)?
TWaitArm ==
    /\ tmpc["wait"] = "arm_watcher"
    /\ \E ok \in BOOLEAN :
         IF ok THEN /\ tmpc' = [tmpc EXCEPT !["wait"] = "check"]
                    /\ UNCHANGED tmret
               ELSE TExit("wait", "Watcher")
    /\ UNCHANGED <<lock_file, elapsed, tmdead, tmchan>>
    /\ TimerFrame

\* wait: the lock path exists: Ok(()); else danger_zone(done, 240 or given)
TWaitCheck ==
    /\ tmpc["wait"] = "check"
    /\ IF lock_file
         THEN /\ TExit("wait", "Ok")
              /\ UNCHANGED <<elapsed, tmdead>>
         ELSE TEnterDangerZone("wait", wait_timeout(activation_timeout))
    /\ UNCHANGED <<lock_file, tmchan>>
    /\ TimerFrame

\* a second passes for the blocked invocations; no timer and no command is
\* left behind by the clock
Tick ==
    /\ \E i \in Invocations : Blocked(i)
    /\ \A i \in Invocations : Blocked(i) => elapsed[i] < tmdead[i]
    /\ elapsed' = [i \in Invocations |->
                     IF Blocked(i) THEN elapsed[i] + 1 ELSE elapsed[i]]
    /\ UNCHANGED <<lock_file, tmpc, tmdead, tmchan, tmret>>
    /\ TimerFrame

\* a step of one of the two processes
TimerStep ==
    \/ TCommands
    \/ TCreateLock
    \/ TDangerZone("activate")
    \/ TDangerZone("wait")
    \/ TRollback
    \/ TWaitArm
    \/ TWaitCheck

NextTimer ==
    \/ TimerStep
    \/ TRemoveLock
    \/ Tick

SpecTimer == InitTimer /\ [][NextTimer]_vars

\* the external commands terminate, the processes are scheduled, time
\* passes and timers fire
SpecTimerFair == SpecTimer /\ WF_vars(TimerStep) /\ WF_vars(Tick)

\* how long after entering danger_zone an invocation may still be running
ExitLimit(i) ==
    IF i = "activate" THEN confirm_timeout + MaxCommandSecs
                      ELSE wait_timeout(activation_timeout)

\* C36: with commands that terminate and timers that fire, every activate
\* exits, at the latest when confirm-timeout has passed since the watchdog
\* was armed and the rollback sequence has finished, and every wait exits,
\* at the latest when the activation timeout (240 seconds when not given)
\* has passed; neither blocks forever when the lock file is never removed or
\* never created.
C36_Termination ==
    /\ <>(tmpc["activate"] = "exited")
    /\ <>(tmpc["wait"] = "exited")
    /\ [](\A i \in Invocations : elapsed[i] <= ExitLimit(i))

\* the lock file came after wait, started with no --activation-timeout, had
\* given up 240 seconds after entering danger_zone; it was never removed
\* and activate rolled back when its confirm-timeout had passed
C36_Witness ==
    /\ activation_timeout = <<>>
    /\ tmpc["wait"] = "exited"
    /\ tmret["wait"] = "TimesUp"
    /\ elapsed["wait"] = DefaultActivationTimeout
    /\ tmpc["activate"] = "exited"
    /\ tmret["activate"] = "Err"
    /\ lock_file
    /\ confirm_timeout > 0
    /\ elapsed["activate"] >= confirm_timeout

====
